---- MODULE Spec2Model ----
(***************************************************************************)
(* The valuation engine of sp500-portfolio (modules/dcf_engine.py,         *)
(* calculate_dcf) as a state machine: one valuation call is a run of the   *)
(* pipeline, one action per step, the fields of the fundamentals record    *)
(* drawn from bounded sets at the step that reads them.                    *)
(*                                                                         *)
(* Units: rates in basis points (0.06 = 600), multiples and beta in        *)
(* hundredths (8.0x = 800), money in millions, per-share values in cents.  *)
(* An optional value is a set: {} is "absent" (None), {v} is "present".    *)
(*                                                                         *)
(* The dashboard (sp500-dashboard) follows as three more state machines    *)
(* over the same variables: the PortfolioProvider, the workbook parsers    *)
(* with the build script generate-data.mjs, and the SearchBar.  Each       *)
(* specification leaves the variables of the others as they start.         *)
(***************************************************************************)
EXTENDS Integers, FiniteSets, Sequences

VARIABLES
    pc,               \* position of the call in calculate_dcf
    cfg,              \* the ValuationConfig the call runs under
    industry,         \* fundamentals.get("industry", "")
    args,             \* the fields read by the step that ran last (its locals)
    sharesOut,        \* validated shares outstanding
    totalDebt,        \* fundamentals total_debt
    forceLow,         \* force_low_confidence
    eqNote,           \* earnings_quality_note
    wacc,             \* discount rate used
    exitMultiple,     \* exit_multiple_used
    exitSource,       \* exit_multiple_source
    impliedG,         \* implied_perpetuity_growth
    valuationWarning, \* valuation_warning
    ivExit,           \* iv_exit_multiple
    ivPerp,           \* iv_perpetual_growth
    analyst,          \* analyst target usable as an anchor
    confidence,       \* confidence tier
    confAtBlend,      \* the tier whose weights the blend used
    weights,          \* blend weights in percent
    ivMethod,         \* iv_method
    iv,               \* intrinsic_value
    dcfNote,          \* dcf_note messages
    degraded,         \* which degradations the call applied
    notes,            \* the notes and warnings of the returned result
    status,           \* valuation_status
    pair,             \* two fundamentals records that differ in total_cash only
    resultBase,       \* calculate_dcf(base) of the pair
    resultCash,       \* calculate_dcf(with_cash) of the pair
    phase,            \* PortfolioProvider: where React is with the component
    portfolio,        \* PortfolioProvider: the portfolio state
    storage,          \* localStorage under STORAGE_KEY
    hydrated,         \* PortfolioProvider: hydrated.current
    saves,            \* what the saveToStorage calls so far followed
    lastCall,         \* the portfolio action called last, and the state it saw
    row,              \* one row of a sheet of the Excel workbook
    parsedTs,         \* what the TypeScript parser made of the row
    parsedMjs,        \* what generate-data.mjs made of the row
    build,            \* how main() of generate-data.mjs ended
    metrics,          \* the margin of safety of the parsed stock, as shown
    now,              \* SearchBar: the time in milliseconds
    local,            \* SearchBar: the text in the input
    search,           \* the parent's search state, the value prop
    timers,           \* SearchBar: the timeouts that are pending
    timerRef,         \* SearchBar: timerRef.current
    keys,             \* SearchBar: the keystrokes so far
    calls,            \* SearchBar: the onChange calls the parent received
    cleared           \* SearchBar: Clear was clicked and no key typed since

\* The state of one valuation call.
callVars == <<pc, cfg, industry, args, sharesOut, totalDebt, forceLow, eqNote, wacc,
              exitMultiple, exitSource, impliedG, valuationWarning, ivExit, ivPerp,
              analyst, confidence, confAtBlend, weights, ivMethod, iv, dcfNote,
              degraded, notes, status>>

\* The state of a paired run of two calls (test_cash_increases_iv).
pairVars == <<pair, resultBase, resultCash>>

\* The state of the dashboard's PortfolioProvider.
dashVars == <<phase, portfolio, storage, hydrated, saves, lastCall>>

\* The state of the workbook parsers and of the stock views.
dataVars == <<row, parsedTs, parsedMjs, build, metrics>>

\* The state of the SearchBar and of its parent.
searchVars == <<now, local, search, timers, timerRef, keys, calls, cleared>>

vars == <<callVars, pairVars, dashVars, dataVars, searchVars>>

\* ------------------------------------------------------------ optional values

Absent == {}

Some(v) == {v}

Val(x) == CHOOSE v \in x : TRUE

Max(a, b) == IF a >= b THEN a ELSE b

Min(a, b) == IF a <= b THEN a ELSE b

Abs(a) == IF a < 0 THEN 0 - a ELSE a

\* ------------------------------------------------------------ configuration

\* The configurations a call can run under: the shipped config.py, and two
\* substituted configurations of the kind a test harness supplies to probe a
\* path: "thin_spread" raises the long-run growth rate so that WACC - g falls
\* below MIN_WACC_G_SPREAD, "high_floor" sets the Airlines WACC floor above
\* WACC_CAP.
Configs == {"shipped", "thin_spread", "high_floor"}

WACC_FLOOR == 600

WACC_CAP == 2000

EXIT_MULTIPLE_FLOOR == 800

EXIT_MULTIPLE_CAP == 2500

DEFAULT_EXIT_MULTIPLE == 1200

IV_CAP_MULTIPLIER == 2

IV_FLOOR == 0

MAX_IMPLIED_GROWTH_RATE == 400

MIN_WACC_G_SPREAD == 300

MIN_EBITDA_MARGIN_FOR_DCF == 200

RISK_FREE_RATE == 430

EQUITY_RISK_PREMIUM == 550

BETA_FLOOR == 50

BETA_CAP == 300

COST_OF_DEBT_MIN == 100

COST_OF_DEBT_MAX == 1500

MIN_ANALYSTS == 5

ANALYST_DIVERGENCE_RATIO == 3

ANALYST_CAP_MULTIPLE == 2

\* config.TERMINAL_GROWTH_RATE, the long-run growth g (2.5% as shipped; with
\* WACC_FLOOR at 6% only a larger g brings WACC - g under the minimum spread).
TerminalGrowthRate(c) == IF c = "thin_spread" THEN 600 ELSE 250

\* config.INDUSTRY_WACC_FLOORS.get(industry)
IndustryWaccFloor(c, ind) ==
    CASE ind = "Biotechnology" -> Some(1200)
      [] ind = "Drug Manufacturers - Specialty & Generic" -> Some(1000)
      [] ind = "Airlines" -> Some(IF c = "high_floor" THEN 2500 ELSE 1400)
      [] ind = "Travel Services" -> Some(1200)
      [] ind = "Oil & Gas E&P" -> Some(1100)
      [] ind = "Oil & Gas Midstream" -> Some(900)
      [] OTHER -> Absent

\* config.INDUSTRY_EXIT_MULTIPLES.get(industry)
IndustryExitMultiple(ind) ==
    CASE ind = "Aerospace & Defense" -> Some(1500)
      [] ind = "Airlines" -> Some(600)
      [] ind = "Biotechnology" -> Some(1200)
      [] OTHER -> Absent

\* config.INDUSTRY_EXIT_MULTIPLE_FLOORS.get(industry)
IndustryExitMultipleFloor(ind) ==
    CASE ind = "Airlines" -> Some(600)
      [] OTHER -> Absent

\* config.SECTOR_EXIT_MULTIPLES.get(sector)
SectorExitMultiple(sector) ==
    CASE sector \in {"Technology", "Information Technology"} -> Some(2000)
      [] sector \in {"Communication Services", "Consumer Discretionary",
                     "Consumer Cyclical", "Consumer Staples",
                     "Consumer Defensive"} -> Some(1400)
      [] sector = "Healthcare" -> Some(1500)
      [] sector = "Industrials" -> Some(1200)
      [] sector \in {"Materials", "Basic Materials", "Utilities",
                     "Financial Services", "Financials"} -> Some(1000)
      [] sector = "Energy" -> Some(800)
      [] sector = "Real Estate" -> Some(1600)
      [] OTHER -> Absent

\* ------------------------------------------------------------ input domains

Industries == {"", "Airlines", "Biotechnology"}

Sectors == {"Technology", "Unknown"}

SharesValues == {Absent, Some(0), Some(20)}

EpsValues == {Absent, Some(-250), Some(0), Some(500)}

MarginValues == {Absent, Some(-500), Some(100), Some(200), Some(2000)}

\* ------------------------------------------------------------ the call

\* No PortfolioProvider is mounted.
DashboardAtRest ==
    /\ phase = "unmounted"
    /\ portfolio = <<>>
    /\ storage = [kind |-> "none"]
    /\ hydrated = FALSE
    /\ saves = {}
    /\ lastCall = [op |-> "none"]

\* No workbook row is being parsed and no stock is shown.
DataAtRest ==
    /\ row = [sheet |-> "none"]
    /\ parsedTs = {}
    /\ parsedMjs = {}
    /\ build = [status |-> "not run"]
    /\ metrics = {}

\* No SearchBar is on the page.
SearchAtRest ==
    /\ now = 0
    /\ local = ""
    /\ search = ""
    /\ timers = {}
    /\ timerRef = 0
    /\ keys = <<>>
    /\ calls = <<>>
    /\ cleared = FALSE

Init ==
    /\ DataAtRest
    /\ SearchAtRest
    /\ pc = "start"
    /\ cfg \in Configs
    /\ industry \in Industries
    /\ args = [step |-> "none"]
    /\ sharesOut = 0
    /\ totalDebt = 0
    /\ forceLow = FALSE
    /\ eqNote = Absent
    /\ wacc = 0
    /\ exitMultiple = 0
    /\ exitSource = ""
    /\ impliedG = Absent
    /\ valuationWarning = Absent
    /\ ivExit = Absent
    /\ ivPerp = Absent
    /\ analyst = Absent
    /\ confidence = "High"
    /\ confAtBlend = "High"
    /\ weights = [exit |-> 0, perp |-> 0, analyst |-> 0]
    /\ ivMethod = ""
    /\ iv = Absent
    /\ dcfNote = {}
    /\ degraded = {}
    /\ notes = {}
    /\ status = "OK"
    /\ pair = [kind |-> "none"]
    /\ resultBase = Absent
    /\ resultCash = Absent
    /\ DashboardAtRest

\* The shares test with the None half alone: a reported zero passes.
SharesValidNotNone(shares) == shares # Absent

\* shares_outstanding is usable: reported and positive.
SharesValid(shares) == shares # Absent /\ Val(shares) > 0

\* shares_outstanding validation: absent or non-positive shares end the call
\* with "Insufficient Data" and no intrinsic value.
ValidateShares ==
    /\ pc = "start"
    /\ \E shares \in SharesValues :
        /\ args' = [step |-> "shares", shares |-> shares]
        /\ IF ~SharesValid(shares)
           THEN /\ status' = "Insufficient Data"
                /\ pc' = "done"
                /\ UNCHANGED sharesOut
           ELSE /\ sharesOut' = Val(shares)
                /\ pc' = "validated"
                /\ UNCHANGED status
    /\ UNCHANGED <<pairVars, dashVars, dataVars, searchVars>>
    /\ UNCHANGED <<cfg, industry, totalDebt, forceLow, eqNote, wacc, exitMultiple,
                   exitSource, impliedG, valuationWarning, ivExit, ivPerp, analyst,
                   confidence, confAtBlend, weights, ivMethod, iv, dcfNote,
                   degraded,
                   notes>>

\* The earnings-quality check: which note, if any, the record's trailing EPS and
\* EBITDA margin raise.
EarningsQualityNote(eps, margin) ==
    IF eps # Absent /\ Val(eps) < 0
    THEN Some("Negative trailing EPS")
    ELSE IF margin # Absent /\ Val(margin) > 0
                            /\ Val(margin) < MIN_EBITDA_MARGIN_FOR_DCF
         THEN Some("Thin EBITDA margin")
         ELSE Absent

CheckEarningsQuality ==
    /\ pc = "validated"
    /\ \E eps \in EpsValues, margin \in MarginValues :
        /\ args' = [step |-> "earnings", eps |-> eps, margin |-> margin]
        /\ eqNote' = EarningsQualityNote(eps, margin)
        /\ forceLow' = (EarningsQualityNote(eps, margin) # Absent)
    /\ pc' = "quality_checked"
    /\ UNCHANGED <<pairVars, dashVars, dataVars, searchVars>>
    /\ UNCHANGED <<cfg, industry, sharesOut, totalDebt, wacc, exitMultiple,
                   exitSource, impliedG, valuationWarning, ivExit, ivPerp, analyst,
                   confidence, confAtBlend, weights, ivMethod, iv, dcfNote,
                   degraded, status,
                   notes>>

\* ------------------------------------------------------------ cost of capital

\* _cap_beta: beta floored at BETA_FLOOR and capped at BETA_CAP; an absent beta
\* counts as the market's (1.0).
CapBeta(beta) ==
    LET b == IF beta = Absent THEN 100 ELSE Val(beta)
    IN  Max(BETA_FLOOR, Min(b, BETA_CAP))

\* CAPM: risk-free rate + beta x equity risk premium.
CostOfEquity(beta) == RISK_FREE_RATE + (CapBeta(beta) * EQUITY_RISK_PREMIUM) \div 100

\* abs(interest_expense) / total_debt, bounded to [1%, 15%]; only read when
\* total_debt > 0.
CostOfDebt(interest, debt) ==
    LET i == IF interest = Absent THEN 0 ELSE Abs(Val(interest))
    IN  Max(COST_OF_DEBT_MIN, Min((i * 10000) \div debt, COST_OF_DEBT_MAX))

\* Market-cap-weighted WACC, capped to [WACC_FLOOR, WACC_CAP].
CompanyWacc(beta, interest, debt, mcap) ==
    LET e == IF mcap = Absent THEN 0 ELSE Max(Val(mcap), 0)
        d == Max(debt, 0)
        ke == CostOfEquity(beta)
        raw == IF d = 0 THEN ke
               ELSE (e * ke + d * CostOfDebt(interest, d)) \div (e + d)
    IN  Max(WACC_FLOOR, Min(raw, WACC_CAP))

\* The industry WACC floor as a plausible slip would apply it: last, with no
\* re-application of the global bounds.
IndustryFlooredWaccNoReclamp(c, ind, w) ==
    LET f == IndustryWaccFloor(c, ind)
    IN  IF f # Absent THEN Max(w, Val(f)) ELSE w

\* The global bounds alone, the industry floor never applied.
IndustryFloorSkipped(c, ind, w) == Max(WACC_FLOOR, Min(w, WACC_CAP))

\* The industry WACC floor, then the global bounds again.
IndustryFlooredWacc(c, ind, w) ==
    LET f == IndustryWaccFloor(c, ind)
        floored == IF f # Absent THEN Max(w, Val(f)) ELSE w
    IN  Max(WACC_FLOOR, Min(floored, WACC_CAP))

BetaValues == {Absent, Some(10), Some(75), Some(400)}

InterestValues == {Absent, Some(-300)}

DebtValues == {0, 2000}

MarketCapValues == {Absent, Some(1000)}

ResolveWacc ==
    /\ pc = "quality_checked"
    /\ \E beta \in BetaValues, interest \in InterestValues,
          debt \in DebtValues, mcap \in MarketCapValues :
        /\ args' = [step |-> "wacc", beta |-> beta, interest |-> interest,
                    mcap |-> mcap]
        /\ totalDebt' = debt
        /\ wacc' = IndustryFlooredWacc(cfg, industry,
                                       CompanyWacc(beta, interest, debt, mcap))
    /\ pc' = "wacc_resolved"
    /\ UNCHANGED <<pairVars, dashVars, dataVars, searchVars>>
    /\ UNCHANGED <<cfg, industry, sharesOut, forceLow, eqNote, exitMultiple,
                   exitSource, impliedG, valuationWarning, ivExit, ivPerp, analyst,
                   confidence, confAtBlend, weights, ivMethod, iv, dcfNote,
                   degraded, status,
                   notes>>

\* ------------------------------------------------------------ financials

\* Price-to-book in thousandths (0.05 = 50, 200 = 200000).
PB_MIN == 50

PB_MAX == 200000

\* The P/B check with the lower bound at zero and no upper bound.
PbValidPositive(pb) == pb # Absent /\ Val(pb) > 0

\* _handle_financial_company: reject P/B < 0.05 or > 200 (or no P/B at all).
PbValid(pb) == pb # Absent /\ Val(pb) >= PB_MIN /\ Val(pb) <= PB_MAX

ASSET_LIGHT_MIN_ROE == 2500

ASSET_LIGHT_MIN_PB == 5000

\* _is_asset_light_financial, for a Financial Services company: ROE > 25% and
\* P/B > 5; such a company skips the P/B fallback and runs the full DCF.
IsAssetLightFinancial(roe, pb) ==
    /\ roe # Absent /\ Val(roe) > ASSET_LIGHT_MIN_ROE
    /\ pb # Absent /\ Val(pb) > ASSET_LIGHT_MIN_PB

FAIR_PB_MIN == 50

FAIR_PB_MAX == 400

\* fair_pb = ROE / cost_of_equity, capped to [0.5, 4.0] (hundredths).
FairPb(roe, beta) ==
    Max(FAIR_PB_MIN, Min((Val(roe) * 100) \div CostOfEquity(beta), FAIR_PB_MAX))

\* fair_value = book_value_per_share * fair_pb
FairValue(bvps, roe, beta) == (bvps * FairPb(roe, beta)) \div 100

PbValues ==
    {Absent, Some(-1000), Some(0), Some(1), Some(49), Some(50), Some(1500),
     Some(200000), Some(200001), Some(300000)}

RoeValues == {Some(-500), Some(1000), Some(3000)}

BookValues == {500, 4000}

\* The P/B fallback of a bank or insurer (Financial Services, not asset-light):
\* an invalid P/B ends the call with "Insufficient Data" and no intrinsic
\* value, a valid one with the ROE-adjusted fair value.
HandleFinancialCompany ==
    /\ pc = "validated"
    /\ \E pb \in PbValues, roe \in RoeValues, bvps \in BookValues,
          beta \in BetaValues :
        /\ ~IsAssetLightFinancial(roe, pb)
        /\ args' = [step |-> "financial", pb |-> pb, roe |-> roe, bvps |-> bvps,
                    beta |-> beta]
        /\ IF PbValid(pb)
           THEN /\ iv' = Some(FairValue(bvps, roe, beta))
                /\ ivMethod' = "Fair P/B"
                /\ status' = "P/B Fallback"
           ELSE /\ status' = "Insufficient Data"
                /\ UNCHANGED <<iv, ivMethod>>
    /\ pc' = "done"
    /\ UNCHANGED <<pairVars, dashVars, dataVars, searchVars>>
    /\ UNCHANGED <<cfg, industry, sharesOut, totalDebt, forceLow, eqNote, wacc,
                   exitMultiple, exitSource, impliedG, valuationWarning, ivExit,
                   ivPerp, analyst, confidence, confAtBlend, weights, dcfNote,
                   degraded, notes>>

\* ------------------------------------------------------------ exit multiple

\* The industry floor combined with the global floor, the larger of the two.
ExitFloorCombined(ind) ==
    IF IndustryExitMultipleFloor(ind) # Absent
    THEN Max(Val(IndustryExitMultipleFloor(ind)), EXIT_MULTIPLE_FLOOR)
    ELSE EXIT_MULTIPLE_FLOOR

\* floor = INDUSTRY_EXIT_MULTIPLE_FLOORS.get(industry, EXIT_MULTIPLE_FLOOR)
ExitFloor(ind) ==
    IF IndustryExitMultipleFloor(ind) # Absent
    THEN Val(IndustryExitMultipleFloor(ind))
    ELSE EXIT_MULTIPLE_FLOOR

\* clamp(val) with the ceiling alone, the floor forgotten.
ClampCapOnly(ind, val) == Min(val, EXIT_MULTIPLE_CAP)

\* clamp(val) of _resolve_exit_multiple
Clamp(ind, val) == Max(ExitFloor(ind), Min(val, EXIT_MULTIPLE_CAP))

\* The ticker test without the range: any reported EV/EBITDA counts.
TickerValidAnyPresent(tickerEv) == tickerEv # Absent

\* 1.0 < ticker_ev < 100.0
TickerValid(tickerEv) ==
    tickerEv # Absent /\ 100 < Val(tickerEv) /\ Val(tickerEv) < 10000

\* The peer-median test without the "> 0" half.
PeerUsableNotNone(peer) == peer # Absent

\* sector_ev_ebitda_median is not None and sector_ev_ebitda_median > 0
PeerUsable(peer) == peer # Absent /\ Val(peer) > 0

\* _resolve_exit_multiple -> (multiple, source)
ResolveExitMultipleValue(ind, sector, peer, tickerEv) ==
    LET indDef == IndustryExitMultiple(ind)
        secDef == SectorExitMultiple(sector)
    IN  IF PeerUsable(peer)
        THEN [multiple |-> Clamp(ind, Val(peer)), source |-> "Sector Peer Median"]
        ELSE IF TickerValid(tickerEv)
        THEN IF indDef # Absent
             THEN [multiple |-> Clamp(ind, (Val(tickerEv) + Val(indDef)) \div 2),
                   source |-> "Blended (Ticker + Industry)"]
             ELSE IF secDef # Absent
             THEN [multiple |-> Clamp(ind, (Val(tickerEv) + Val(secDef)) \div 2),
                   source |-> "Blended (Ticker + Sector)"]
             ELSE [multiple |-> Clamp(ind, Val(tickerEv)),
                   source |-> "Ticker EV/EBITDA"]
        ELSE IF indDef # Absent
        THEN [multiple |-> Clamp(ind, Val(indDef)), source |-> "Industry Default"]
        ELSE IF secDef # Absent
        THEN [multiple |-> Clamp(ind, Val(secDef)), source |-> "Sector Default"]
        ELSE [multiple |-> DEFAULT_EXIT_MULTIPLE, source |-> "Global Default"]

\* The multiple the chosen tier holds before clamp() is applied to it.
UnclampedMultiple(ind, sector, peer, tickerEv) ==
    LET indDef == IndustryExitMultiple(ind)
        secDef == SectorExitMultiple(sector)
    IN  IF PeerUsable(peer) THEN Val(peer)
        ELSE IF TickerValid(tickerEv)
        THEN IF indDef # Absent THEN (Val(tickerEv) + Val(indDef)) \div 2
             ELSE IF secDef # Absent THEN (Val(tickerEv) + Val(secDef)) \div 2
             ELSE Val(tickerEv)
        ELSE IF indDef # Absent THEN Val(indDef)
        ELSE IF secDef # Absent THEN Val(secDef)
        ELSE DEFAULT_EXIT_MULTIPLE

\* Sector-peer medians offered: absent, or 0x .. MaxPeer x 5.0x in steps of 5.0x.
MaxPeer == 8

PeerValues == {Absent} \cup {Some(500 * k) : k \in 0..MaxPeer}

TickerEvValues ==
    {Absent, Some(50), Some(100), Some(700), Some(2200), Some(10000), Some(15000)}

ResolveExitMultiple ==
    /\ pc = "wacc_resolved"
    /\ \E sector \in Sectors, peer \in PeerValues, tickerEv \in TickerEvValues :
        LET r == ResolveExitMultipleValue(industry, sector, peer, tickerEv)
        IN  /\ args' = [step |-> "exit", sector |-> sector, peer |-> peer,
                        tickerEv |-> tickerEv]
            /\ exitMultiple' = r.multiple
            /\ exitSource' = r.source
            /\ degraded' = IF r.multiple # UnclampedMultiple(industry, sector,
                                                              peer, tickerEv)
                           THEN degraded \cup {"clamped multiple"}
                           ELSE degraded
    /\ pc' = "multiple_resolved"
    /\ UNCHANGED <<pairVars, dashVars, dataVars, searchVars>>
    /\ UNCHANGED <<cfg, industry, sharesOut, totalDebt, forceLow, eqNote, wacc,
                   impliedG, valuationWarning, ivExit, ivPerp, analyst,
                   confidence, confAtBlend, weights, ivMethod, iv, dcfNote,
                   status,
                   notes>>

\* ------------------------------------------------------------ terminal values

\* 1 / (1 + wacc)^t, scaled by 10000.
RECURSIVE DiscountFactor(_, _)
DiscountFactor(w, t) ==
    IF t = 0 THEN 10000
    ELSE (DiscountFactor(w, t - 1) * 10000) \div (10000 + w)

\* Present value of the five projected free cash flows.
PvFcfs(path, w) ==
    LET pv(t) == (path[t] * DiscountFactor(w, t)) \div 10000
    IN  pv(1) + pv(2) + pv(3) + pv(4) + pv(5)

\* terminal_value_exit = fcf_year5 * exit_multiple
TerminalValueExit(fcf5, multiple) == (fcf5 * multiple) \div 100

\* The perpetual-growth value computed whenever the spread is positive, the
\* minimum spread not consulted.
TerminalValuePerpAnyPositiveSpread(fcf5, w, g) ==
    IF w - g > 0
    THEN Some((fcf5 * (10000 + g)) \div (w - g))
    ELSE Absent

\* terminal_value_perp = fcf_year5 * (1 + g) / (WACC - g), computed only when
\* (WACC - g) >= MIN_WACC_G_SPREAD, else None.
TerminalValuePerp(fcf5, w, g) ==
    IF w - g >= MIN_WACC_G_SPREAD
    THEN Some((fcf5 * (10000 + g)) \div (w - g))
    ELSE Absent

\* implied_g = WACC - (fcf_year5 / terminal_value_exit)
ImpliedGrowth(fcf5, tvExit, w) ==
    IF tvExit = 0 THEN Absent ELSE Some(w - (fcf5 * 10000) \div tvExit)

GrowthExceeded(g) == g # Absent /\ Val(g) > MAX_IMPLIED_GROWTH_RATE

\* EV-to-equity bridge: equity = ev - total_debt + cash; iv = equity / shares.
Bridge(ev, debt, cash, shares) == ((ev - debt + cash) * 100) \div shares

\* Per-share value of one terminal-value path.
MethodValue(path, w, tv, debt, cash, shares) ==
    Bridge(PvFcfs(path, w) + (tv * DiscountFactor(w, 5)) \div 10000,
           debt, cash, shares)

\* The projector's output FCF_year1..5 (the projector is a leaf of the engine).
FcfPaths == {<<100, 105, 110, 115, 120>>, <<-50, -40, -30, -20, -10>>}

\* The record's free cash flow: absent, or projected to one of the paths.
FcfValues == {Absent} \cup {Some(p) : p \in FcfPaths}

CashValues == {Absent, Some(500)}

\* What a call with no free cash flow to project returns.
MissingFcfStatus == "Insufficient Data"

\* equity / shares with shares = 0
DivisionByZero == "ZeroDivisionError"

ValueMethods ==
    /\ pc = "multiple_resolved"
    /\ \E fcf \in FcfValues, cashIn \in CashValues :
        /\ args' = [step |-> "value", fcf |-> fcf, cash |-> cashIn]
        /\ IF fcf = Absent \/ sharesOut = 0
           THEN /\ status' = IF fcf = Absent THEN MissingFcfStatus
                              ELSE DivisionByZero
                /\ pc' = "done"
                /\ UNCHANGED <<impliedG, valuationWarning, ivExit, ivPerp>>
           ELSE LET path == Val(fcf)
                    cash == IF cashIn = Absent THEN 0 ELSE Val(cashIn)
                    tvExit == TerminalValueExit(path[5], exitMultiple)
                    tvPerp == TerminalValuePerp(path[5], wacc,
                                                TerminalGrowthRate(cfg))
                    g == ImpliedGrowth(path[5], tvExit, wacc)
                IN  /\ impliedG' = g
                    /\ valuationWarning' =
                           IF GrowthExceeded(g)
                           THEN Some("Implied growth rate exceeds GDP growth ceiling")
                           ELSE Absent
                    /\ ivExit' = Some(MethodValue(path, wacc, tvExit, totalDebt,
                                                  cash, sharesOut))
                    /\ ivPerp' = IF tvPerp = Absent THEN Absent
                                 ELSE Some(MethodValue(path, wacc, Val(tvPerp),
                                                       totalDebt, cash, sharesOut))
                    /\ pc' = "valued"
                    /\ UNCHANGED status
    /\ UNCHANGED <<pairVars, dashVars, dataVars, searchVars>>
    /\ UNCHANGED <<cfg, industry, sharesOut, totalDebt, forceLow, eqNote, wacc,
                   exitMultiple, exitSource, analyst, confidence, confAtBlend,
                   weights, ivMethod, iv, dcfNote, degraded,
                   notes>>

\* ------------------------------------------------------------ blending

Tiers == {"High", "Medium", "Low"}

Rank(tier) == CASE tier = "High" -> 3 [] tier = "Medium" -> 2 [] OTHER -> 1

\* The tier the data-quality scoring of the record arrives at.
AssessConfidence ==
    /\ pc = "valued"
    /\ \E tier \in Tiers :
        /\ args' = [step |-> "confidence", tier |-> tier]
        /\ confidence' = tier
    /\ pc' = "assessed"
    /\ UNCHANGED <<pairVars, dashVars, dataVars, searchVars>>
    /\ UNCHANGED <<cfg, industry, sharesOut, totalDebt, forceLow, eqNote, wacc,
                   exitMultiple, exitSource, impliedG, valuationWarning, ivExit,
                   ivPerp, analyst, confAtBlend, weights, ivMethod, iv, dcfNote,
                   degraded, status,
                   notes>>

\* Equal weights for every tier.
TierWeightsEqual(tier) == [exit |-> 50, perp |-> 50]

\* Exit-multiple and perpetual-growth weights (percent) of a confidence tier.
TierWeights(tier) ==
    CASE tier = "High" -> [exit |-> 60, perp |-> 40]
      [] tier = "Medium" -> [exit |-> 50, perp |-> 50]
      [] OTHER -> [exit |-> 40, perp |-> 60]

\* The analyst target as an anchor: present with >= MIN_ANALYSTS estimates.
AnalystAnchor(target, count) ==
    IF target # Absent /\ count # Absent /\ Val(count) >= MIN_ANALYSTS
    THEN target ELSE Absent

Usable(x) == x # Absent /\ Val(x) > 0

\* The blender without the growth-warning rule.
ForcedBlendNever(g, perp) == FALSE

\* The forced blend: implied_g > MAX_IMPLIED_GROWTH_RATE and iv_perp available.
ForcedBlend(g, perp) == GrowthExceeded(g) /\ perp # Absent

\* The tier set to "Medium" outright on the growth warning.
BlendTierAssigned(tier, forced) == IF forced THEN "Medium" ELSE tier

\* "Set confidence to max Medium when blending" on the growth warning.
BlendTier(tier, forced) ==
    IF forced /\ Rank(tier) > Rank("Medium") THEN "Medium" ELSE tier

\* The single-method branch with the analyst anchor still folded in.
SingleMethodWithAnchor(exitV, perpV, t) ==
    IF Usable(perpV) /\ ~Usable(exitV)
    THEN [iv |-> (80 * Val(perpV)) \div 100, method |-> "Perpetual Growth Only",
          tier |-> t, weights |-> [exit |-> 0, perp |-> 100, analyst |-> 0]]
    ELSE [iv |-> (80 * Val(exitV)) \div 100, method |-> "Exit Multiple Only",
          tier |-> t, weights |-> [exit |-> 100, perp |-> 0, analyst |-> 0]]

\* "If only one method available, use that one": the perpetual-growth value
\* when it alone is positive, else the exit-multiple value.
SingleMethod(exitV, perpV, t) ==
    IF Usable(perpV) /\ ~Usable(exitV)
    THEN [iv |-> Val(perpV), method |-> "Perpetual Growth Only", tier |-> t,
          weights |-> [exit |-> 0, perp |-> 100, analyst |-> 0]]
    ELSE [iv |-> Val(exitV), method |-> "Exit Multiple Only", tier |-> t,
          weights |-> [exit |-> 100, perp |-> 0, analyst |-> 0]]

\* The blender: [iv, method, tier, weights].
BlendValue(exitV, perpV, anchor, tier, g) ==
    LET forced == ForcedBlend(g, perpV)
        t == BlendTier(tier, forced)
        both == Usable(exitV) /\ Usable(perpV)
        base == IF both THEN TierWeights(t) ELSE [exit |-> 50, perp |-> 50]
    IN  IF exitV # Absent /\ perpV # Absent /\ (both \/ forced)
        THEN IF anchor # Absent
             THEN LET we == (base.exit * 80) \div 100
                      wp == (base.perp * 80) \div 100
                  IN  [iv |-> (we * Val(exitV) + wp * Val(perpV)
                                 + 20 * Val(anchor)) \div 100,
                       method |-> "Blended (Exit+Perp+Analyst)",
                       tier |-> t,
                       weights |-> [exit |-> we, perp |-> wp, analyst |-> 20]]
             ELSE [iv |-> (base.exit * Val(exitV) + base.perp * Val(perpV))
                            \div 100,
                   method |-> "Blended (Exit+Perp)",
                   tier |-> t,
                   weights |-> [exit |-> base.exit, perp |-> base.perp,
                                analyst |-> 0]]
        ELSE SingleMethod(exitV, perpV, t)

AnalystInputs ==
    {[target |-> Absent, count |-> Absent],
     [target |-> Some(1000), count |-> Some(10)],
     [target |-> Some(10000), count |-> Some(10)],
     [target |-> Some(10000), count |-> Some(3)]}

Blend ==
    /\ pc = "assessed"
    /\ \E a \in AnalystInputs :
        LET anchor == AnalystAnchor(a.target, a.count)
            r == BlendValue(ivExit, ivPerp, anchor, confidence, impliedG)
        IN  /\ args' = [step |-> "blend", target |-> a.target, count |-> a.count]
            /\ analyst' = anchor
            /\ iv' = Some(r.iv)
            /\ ivMethod' = r.method
            /\ confidence' = r.tier
            /\ confAtBlend' = r.tier
            /\ weights' = r.weights
    /\ pc' = "blended"
    /\ UNCHANGED <<pairVars, dashVars, dataVars, searchVars>>
    /\ UNCHANGED <<cfg, industry, sharesOut, totalDebt, forceLow, eqNote, wacc,
                   exitMultiple, exitSource, impliedG, valuationWarning, ivExit,
                   ivPerp, dcfNote, degraded, status,
                   notes>>

\* ------------------------------------------------------------ governor

\* The blended value passed on with no floor.
FloorValueMissing(v) == v

\* intrinsic_value = max(intrinsic_value, config.IV_FLOOR)
FloorValue(v) == Max(v, IV_FLOOR)

FloorIV ==
    /\ pc = "blended"
    /\ args' = [step |-> "floor"]
    /\ iv' = Some(FloorValue(Val(iv)))
    /\ degraded' = IF FloorValue(Val(iv)) # Val(iv)
                   THEN degraded \cup {"floored IV"} ELSE degraded
    /\ pc' = "floored"
    /\ UNCHANGED <<pairVars, dashVars, dataVars, searchVars>>
    /\ UNCHANGED <<cfg, industry, sharesOut, totalDebt, forceLow, eqNote, wacc,
                   exitMultiple, exitSource, impliedG, valuationWarning, ivExit,
                   ivPerp, analyst, confidence, confAtBlend, weights, ivMethod,
                   dcfNote, notes, status>>

\* The filter as a slip would write it: the flag computed but never applied.
FilteredTierIgnoringFlag(tier, force) == tier

\* if force_low_confidence: confidence = "Low"
FilteredTier(tier, force) == IF force THEN "Low" ELSE tier

ApplyEarningsQuality ==
    /\ pc = "floored"
    /\ args' = [step |-> "filter", before |-> confidence]
    /\ confidence' = FilteredTier(confidence, forceLow)
    /\ degraded' = IF forceLow THEN degraded \cup {"forced Low: earnings quality"}
                   ELSE degraded
    /\ pc' = "filtered"
    /\ UNCHANGED <<pairVars, dashVars, dataVars, searchVars>>
    /\ UNCHANGED <<cfg, industry, sharesOut, totalDebt, forceLow, eqNote, wacc,
                   exitMultiple, exitSource, impliedG, valuationWarning, ivExit,
                   ivPerp, analyst, confAtBlend, weights, ivMethod, iv, dcfNote,
                   notes, status>>

\* IV differs from the analyst target by more than the divergence ratio.
Diverges(v, anchor) ==
    /\ anchor # Absent
    /\ \/ v > ANALYST_DIVERGENCE_RATIO * Val(anchor)
       \/ v * ANALYST_DIVERGENCE_RATIO < Val(anchor)

\* cap IV at 2x analyst target
AnalystCapValue(v, anchor) ==
    IF Diverges(v, anchor)
    THEN Min(v, ANALYST_CAP_MULTIPLE * Val(anchor)) ELSE v

AnalystCap ==
    /\ pc = "filtered"
    /\ args' = [step |-> "analyst cap"]
    /\ iv' = Some(AnalystCapValue(Val(iv), analyst))
    /\ IF Diverges(Val(iv), analyst)
       THEN /\ confidence' = "Low"
            /\ dcfNote' = dcfNote \cup {"IV diverges from analyst target"}
            /\ degraded' = degraded \cup
                   {"forced Low: analyst divergence"} \cup
                   (IF AnalystCapValue(Val(iv), analyst) # Val(iv)
                    THEN {"capped IV: analyst"} ELSE {})
       ELSE UNCHANGED <<confidence, dcfNote, degraded>>
    /\ pc' = "anchored"
    /\ UNCHANGED <<pairVars, dashVars, dataVars, searchVars>>
    /\ UNCHANGED <<cfg, industry, sharesOut, totalDebt, forceLow, eqNote, wacc,
                   exitMultiple, exitSource, impliedG, valuationWarning, ivExit,
                   ivPerp, analyst, confAtBlend, weights, ivMethod, notes,
                   status>>

ExceedsCap(v, price) == price # Absent /\ v > Val(price) * IV_CAP_MULTIPLIER

\* The cap read as the floor max(intrinsic_value, price * multiplier).
UpsideCapValueAsMax(v, price) ==
    IF price # Absent THEN Max(v, Val(price) * IV_CAP_MULTIPLIER) ELSE v

\* The upside cap: IV may not exceed current_price * IV_CAP_MULTIPLIER. The
\* plan words the bound as max(intrinsic_value, current_price * 5); what it
\* specifies ("cap", "no stock should show > 400% upside", a capped FOXA) is
\* the minimum of the two.
UpsideCapValue(v, price) ==
    IF ExceedsCap(v, price) THEN Val(price) * IV_CAP_MULTIPLIER ELSE v

\* Current prices offered: absent, or $0 .. MaxPrice x $30 in steps of $30.
MaxPrice == 3

PriceValues == {Absent} \cup {Some(3000 * k) : k \in 0..MaxPrice}

\* The last step: the upside cap, then the earnings note if no dcf_note was
\* set, then the result's notes.
UpsideCap ==
    /\ pc = "anchored"
    /\ \E price \in PriceValues :
        LET capped == ExceedsCap(Val(iv), price)
            note == IF capped THEN dcfNote \cup {"IV capped at price multiple"}
                    ELSE dcfNote
            final == IF eqNote # Absent /\ note = {} THEN eqNote ELSE note
        IN  /\ args' = [step |-> "cap", price |-> price]
            /\ iv' = Some(UpsideCapValue(Val(iv), price))
            /\ confidence' = IF capped THEN "Low" ELSE confidence
            /\ degraded' = IF capped
                           THEN degraded \cup {"capped IV: price",
                                               "forced Low: price cap"}
                           ELSE degraded
            /\ dcfNote' = final
            /\ notes' = final \cup valuationWarning
    /\ pc' = "done"
    /\ UNCHANGED <<pairVars, dashVars, dataVars, searchVars>>
    /\ UNCHANGED <<cfg, industry, sharesOut, totalDebt, forceLow, eqNote, wacc,
                   exitMultiple, exitSource, impliedG, valuationWarning, ivExit,
                   ivPerp, analyst, confAtBlend, weights, ivMethod, status>>

Next ==
    \/ ValidateShares
    \/ HandleFinancialCompany
    \/ CheckEarningsQuality
    \/ ResolveWacc
    \/ ResolveExitMultiple
    \/ ValueMethods
    \/ AssessConfidence
    \/ Blend
    \/ FloorIV
    \/ ApplyEarningsQuality
    \/ AnalystCap
    \/ UpsideCap

Spec == Init /\ [][Next]_vars

\* ------------------------------------------------------------ paired calls

\* calculate_dcf as a function of the resolved inputs: the two terminal-value
\* paths, the blend, then the governor's steps on the value, in order.
CalculateDcfValue(c, path, cashIn, debt, shares, w, multiple, tier, anchor, price) ==
    LET cash == IF cashIn = Absent THEN 0 ELSE Val(cashIn)
        tvExit == TerminalValueExit(path[5], multiple)
        tvPerp == TerminalValuePerp(path[5], w, TerminalGrowthRate(c))
        g == ImpliedGrowth(path[5], tvExit, w)
        exitV == Some(MethodValue(path, w, tvExit, debt, cash, shares))
        perpV == IF tvPerp = Absent THEN Absent
                 ELSE Some(MethodValue(path, w, Val(tvPerp), debt, cash, shares))
        r == BlendValue(exitV, perpV, anchor, tier, g)
        floored == FloorValue(r.iv)
        anchored == AnalystCapValue(floored, anchor)
    IN  [ivExit |-> exitV, ivPerp |-> perpV, blended |-> r.iv,
         method |-> r.method, floored |-> floored, anchored |-> anchored,
         iv |-> UpsideCapValue(anchored, price)]

\* Cash added to the second record of a pair, in millions.
MaxExtraCash == 4

ExtraCashValues == {100 * k : k \in 1..MaxExtraCash}

\* _make_fundamentals(total_cash=...) twice: the fields the two records share,
\* the first record's cash and the cash added to the second.
PairInputs ==
    [kind : {"cash pair"},
     cfg : {"shipped", "thin_spread"},
     path : FcfPaths,
     debt : DebtValues,
     shares : {20},
     wacc : {600, 842, 1400},
     multiple : {800, 2500},
     tier : Tiers,
     analyst : AnalystInputs,
     price : {Absent, Some(3000), Some(9000)},
     cash : CashValues,
     extra : ExtraCashValues]

\* No valuation call is running.
CallAtRest ==
    /\ pc = "idle"
    /\ cfg = "shipped"
    /\ industry = ""
    /\ args = [step |-> "none"]
    /\ sharesOut = 0
    /\ totalDebt = 0
    /\ forceLow = FALSE
    /\ eqNote = Absent
    /\ wacc = 0
    /\ exitMultiple = 0
    /\ exitSource = ""
    /\ impliedG = Absent
    /\ valuationWarning = Absent
    /\ ivExit = Absent
    /\ ivPerp = Absent
    /\ analyst = Absent
    /\ confidence = "High"
    /\ confAtBlend = "High"
    /\ weights = [exit |-> 0, perp |-> 0, analyst |-> 0]
    /\ ivMethod = ""
    /\ iv = Absent
    /\ dcfNote = {}
    /\ degraded = {}
    /\ notes = {}
    /\ status = "OK"

InitPair ==
    /\ CallAtRest
    /\ DashboardAtRest
    /\ DataAtRest
    /\ SearchAtRest
    /\ pair \in PairInputs
    /\ resultBase = Absent
    /\ resultCash = Absent

\* iv_base = calculate_dcf(base)
CallBase ==
    /\ pair.kind = "cash pair"
    /\ resultBase = Absent
    /\ resultBase' = Some(CalculateDcfValue(
                          pair.cfg, pair.path, pair.cash, pair.debt, pair.shares,
                          pair.wacc, pair.multiple, pair.tier,
                          AnalystAnchor(pair.analyst.target, pair.analyst.count),
                          pair.price))
    /\ UNCHANGED <<callVars, dashVars, dataVars, searchVars, pair, resultCash>>

\* iv_cash = calculate_dcf(with_cash)
CallWithCash ==
    /\ pair.kind = "cash pair"
    /\ resultCash = Absent
    /\ LET base == IF pair.cash = Absent THEN 0 ELSE Val(pair.cash)
       IN  resultCash' = Some(CalculateDcfValue(
                          pair.cfg, pair.path, Some(base + pair.extra), pair.debt,
                          pair.shares, pair.wacc, pair.multiple, pair.tier,
                          AnalystAnchor(pair.analyst.target, pair.analyst.count),
                          pair.price))
    /\ UNCHANGED <<callVars, dashVars, dataVars, searchVars, pair, resultBase>>

NextPair == CallBase \/ CallWithCash

PairSpec == InitPair /\ [][NextPair]_vars

\* ------------------------------------------------------------ portfolio

\* The stocks the dashboard offers (StockData): upsidePercent and conviction
\* are number | null.
StockUniverse ==
    {[ticker |-> "AAA", upside |-> Some(10), conviction |-> Some(5)],
     [ticker |-> "BBB", upside |-> Some(20), conviction |-> Absent],
     [ticker |-> "CCC", upside |-> Absent, conviction |-> Some(3)],
     [ticker |-> "DDD", upside |-> Some(0), conviction |-> Some(0)],
     [ticker |-> "EEE", upside |-> Some(-5), conviction |-> Some(2)]}

Tickers == {st.ticker : st \in StockUniverse}

\* Stocks a portfolio holds at most.
MaxStocks == 2

\* A PortfolioStock: the stock, allocationPercent in hundredths of a percent,
\* status and notes.
Entry(st, alloc) ==
    [ticker |-> st.ticker, upside |-> st.upside, conviction |-> st.conviction,
     alloc |-> alloc, status |-> "interested", notes |-> ""]

WithAllocation(ps, alloc) == [ps EXCEPT !.alloc = alloc]

\* Math.round(num / den * 10000), for num >= 0 and den > 0.
RoundedShare(num, den) == (2 * num * 10000 + den) \div (2 * den)

\* What localStorage can hold under STORAGE_KEY when the provider mounts.
StoredValues ==
    {[kind |-> "none"], [kind |-> "invalid"], [kind |-> "object"],
     [kind |-> "array", value |-> <<>>],
     [kind |-> "array",
      value |-> <<[ticker |-> "AAA", upside |-> Some(10),
                   conviction |-> Some(5), alloc |-> 5000,
                   status |-> "committed", notes |-> "core"]>>]}

\* loadFromStorage: [] unless the key holds the JSON of an array.
LoadFromStorage(stored) == IF stored.kind = "array" THEN stored.value ELSE <<>>

\* JSON.stringify(portfolio), as localStorage keeps it.
Stringify(p) == [kind |-> "array", value |-> p]

InitPortfolio ==
    /\ CallAtRest
    /\ DataAtRest
    /\ SearchAtRest
    /\ pair = [kind |-> "none"]
    /\ resultBase = Absent
    /\ resultCash = Absent
    /\ phase = "unmounted"
    /\ portfolio = <<>>
    /\ storage \in StoredValues
    /\ hydrated = FALSE
    /\ saves = {}
    /\ lastCall = [op |-> "none"]

\* The first render: useState(() => loadFromStorage()), useRef(false).
Mount ==
    /\ phase = "unmounted"
    /\ portfolio' = LoadFromStorage(storage)
    /\ hydrated' = FALSE
    /\ phase' = "first render"
    /\ UNCHANGED <<callVars, pairVars, dataVars, searchVars, storage, saves, lastCall>>

\* The first effect of the first commit: hydrated.current = true.
EffectMarkHydrated ==
    /\ phase = "first render"
    /\ hydrated' = TRUE
    /\ phase' = "first effect done"
    /\ UNCHANGED <<callVars, pairVars, dataVars, searchVars, portfolio, storage, saves, lastCall>>

\* The second effect, after the first commit and after every commit that
\* changed portfolio: if (hydrated.current) saveToStorage(portfolio).
EffectPersist ==
    /\ phase \in {"first effect done", "changed"}
    /\ IF hydrated
       THEN /\ storage' = Stringify(portfolio)
            /\ saves' = saves \cup {IF phase = "changed" THEN "change"
                                      ELSE "mount"}
       ELSE UNCHANGED <<storage, saves>>
    /\ phase' = "idle"
    /\ UNCHANGED <<callVars, pairVars, dataVars, searchVars, portfolio, hydrated, lastCall>>

\* setPortfolio(updater) from an event handler: a new array commits and leaves
\* the persist effect to run; the same array (return prev) changes nothing.
\* lastCall keeps the action and its argument, and the state the action saw
\* for the two actions whose outcome is compared with it, addStock and
\* weightByUpside.
SetPortfolio(op, arg, next, sameArray) ==
    /\ phase = "idle"
    /\ lastCall' = [op |-> op, arg |-> arg,
                    prev |-> IF op \in {"addStock", "weightByUpside"}
                             THEN portfolio ELSE <<>>]
    /\ portfolio' = next
    /\ phase' = IF sameArray THEN phase ELSE "changed"
    /\ UNCHANGED <<callVars, pairVars, dataVars, searchVars, storage, hydrated, saves>>

Holds(p, ticker) == \E i \in 1..Len(p) : p[i].ticker = ticker

\* addStock without the test for a ticker the portfolio holds already.
addStockUnchecked ==
    \E st \in StockUniverse :
        /\ Len(portfolio) < MaxStocks
        /\ SetPortfolio("addStock", st.ticker,
                        Append(portfolio, Entry(st, 0)), FALSE)

addStock ==
    \E st \in StockUniverse :
        /\ Len(portfolio) < MaxStocks \/ Holds(portfolio, st.ticker)
        /\ IF Holds(portfolio, st.ticker)
           THEN SetPortfolio("addStock", st.ticker, portfolio, TRUE)
           ELSE SetPortfolio("addStock", st.ticker,
                             Append(portfolio, Entry(st, 0)), FALSE)

\* The tickers of the rows the portfolio page shows, each with its allocation
\* input, its remove button and its status and notes controls.
ListedTickers == {portfolio[i].ticker : i \in 1..Len(portfolio)}

removeStock ==
    \E ticker \in ListedTickers :
        SetPortfolio("removeStock", ticker,
                     SelectSeq(portfolio, LAMBDA ps : ps.ticker # ticker), FALSE)

\* What the allocation input of the portfolio page can hold.
AllocationTexts == {"", "-10", "100", "150"}

\* parseFloat(e.target.value): NaN (absent here) for the empty input.
ParseFloat(text) ==
    CASE text = "-10" -> Some(-10)
      [] text = "100" -> Some(100)
      [] text = "150" -> Some(150)
      [] OTHER -> Absent

\* Percents the page passes to updateAllocation: parseFloat(...) || 0.
AllocationInputs ==
    {IF ParseFloat(text) = Absent THEN 0 ELSE Val(ParseFloat(text)) :
        text \in AllocationTexts}

\* The percent with the floor of 0 only.
ClampPercentFromBelow(percent) == Max(0, percent)

\* Math.max(0, Math.min(100, percent))
ClampPercent(percent) == Max(0, Min(100, percent))

updateAllocation ==
    \E ticker \in ListedTickers, percent \in AllocationInputs :
        SetPortfolio("updateAllocation", ticker,
                     [i \in 1..Len(portfolio) |->
                         IF portfolio[i].ticker = ticker
                         THEN WithAllocation(portfolio[i],
                                             100 * ClampPercent(percent))
                         ELSE portfolio[i]],
                     FALSE)

\* The stocks whose status and notes the user edits.
EditedTickers == {"AAA"}

updateStatus ==
    \E ticker \in EditedTickers \cap ListedTickers, newStatus \in {"interested", "committed"} :
        SetPortfolio("updateStatus", ticker,
                     [i \in 1..Len(portfolio) |->
                         IF portfolio[i].ticker = ticker
                         THEN [portfolio[i] EXCEPT !.status = newStatus]
                         ELSE portfolio[i]],
                     FALSE)

updateNotes ==
    \E ticker \in EditedTickers \cap ListedTickers, text \in {"", "core"} :
        SetPortfolio("updateNotes", ticker,
                     [i \in 1..Len(portfolio) |->
                         IF portfolio[i].ticker = ticker
                         THEN [portfolio[i] EXCEPT !.notes = text]
                         ELSE portfolio[i]],
                     FALSE)

clearPortfolio == SetPortfolio("clearPortfolio", "", <<>>, FALSE)

equalWeight ==
    IF Len(portfolio) = 0
    THEN SetPortfolio("equalWeight", "", portfolio, TRUE)
    ELSE SetPortfolio("equalWeight", "",
                      [i \in 1..Len(portfolio) |->
                          WithAllocation(portfolio[i],
                                         RoundedShare(1, Len(portfolio)))],
                      FALSE)

\* prev.reduce((sum, ps) => sum + f(ps), 0)
RECURSIVE SumOver(_, _, _)
SumOver(p, f(_), n) == IF n = 0 THEN 0 ELSE SumOver(p, f, n - 1) + f(p[n])

\* ps.stock.conviction ?? 1
ConvictionOf(ps) == IF ps.conviction = Absent THEN 1 ELSE Val(ps.conviction)

weightByConviction ==
    LET total == SumOver(portfolio, ConvictionOf, Len(portfolio))
    IN  IF Len(portfolio) = 0 \/ total = 0
        THEN SetPortfolio("weightByConviction", "", portfolio, TRUE)
        ELSE SetPortfolio("weightByConviction", "",
                          [i \in 1..Len(portfolio) |->
                              WithAllocation(portfolio[i],
                                  RoundedShare(ConvictionOf(portfolio[i]), total))],
                          FALSE)

\* ps.stock.upsidePercent !== null && ps.stock.upsidePercent > 0
PositiveUpside(ps) == ps.upside # Absent /\ Val(ps.upside) > 0

\* The upside a stock adds to totalUpside.
UpsideOf(ps) == IF PositiveUpside(ps) THEN Val(ps.upside) ELSE 0

\* The map of weightByUpside with the stocks of no positive upside passed
\* through as they are.
UpsideWeightedKeepingOthers(prev, totalUpside) ==
    [i \in 1..Len(prev) |->
        IF prev[i].upside = Absent \/ Val(prev[i].upside) <= 0
        THEN prev[i]
        ELSE WithAllocation(prev[i], RoundedShare(Val(prev[i].upside), totalUpside))]

\* The map of weightByUpside: 0 for a null, zero or negative upside, else
\* Math.round((upside / totalUpside) * 10000) / 100.
UpsideWeighted(prev, totalUpside) ==
    [i \in 1..Len(prev) |->
        IF prev[i].upside = Absent \/ Val(prev[i].upside) <= 0
        THEN WithAllocation(prev[i], 0)
        ELSE WithAllocation(prev[i], RoundedShare(Val(prev[i].upside), totalUpside))]

weightByUpside ==
    LET totalUpside == SumOver(portfolio, UpsideOf, Len(portfolio))
    IN  IF Len(portfolio) = 0 \/ totalUpside = 0
        THEN SetPortfolio("weightByUpside", "", portfolio, TRUE)
        ELSE SetPortfolio("weightByUpside", "",
                          UpsideWeighted(portfolio, totalUpside), FALSE)

NextPortfolio ==
    \/ Mount
    \/ EffectMarkHydrated
    \/ EffectPersist
    \/ addStock
    \/ removeStock
    \/ updateAllocation
    \/ updateStatus
    \/ updateNotes
    \/ clearPortfolio
    \/ equalWeight
    \/ weightByConviction
    \/ weightByUpside

PortfolioSpec == InitPortfolio /\ [][NextPortfolio]_vars

\* ------------------------------------------------------------ workbook rows

\* JavaScript values: what a cell of XLSX.utils.sheet_to_json can hold, and
\* what the parsers make of it.  One shape for all of them: the type, the
\* number of a finite number (of a boolean, 1 or 0), the text of a string.
Undefined == [t |-> "undefined", n |-> 0, s |-> ""]

Null == [t |-> "null", n |-> 0, s |-> ""]

Num(n) == [t |-> "number", n |-> n, s |-> ""]

NaN == [t |-> "NaN", n |-> 0, s |-> ""]

Infinity == [t |-> "Infinity", n |-> 0, s |-> ""]

NegInfinity == [t |-> "-Infinity", n |-> 0, s |-> ""]

Str(s) == [t |-> "string", n |-> 0, s |-> s]

Bool(b) == [t |-> "boolean", n |-> IF b THEN 1 ELSE 0, s |-> ""]

\* typeof val === 'number'
TypeofNumber(val) == val.t \in {"number", "NaN", "Infinity", "-Infinity"}

\* The decimal numerals of the numbers the rows hold.
Numerals ==
    {<<0, "0">>, <<1, "1">>, <<5, "5">>, <<42, "42">>, <<-3, "-3">>,
     <<75, "75">>, <<100, "100">>}

\* Number(s) of a string: its number when it is a numeral, 0 when it is
\* empty or blank, an infinity when it says so or overflows, else NaN.
NumberOfString(s) ==
    IF \E p \in Numerals : p[2] = s
    THEN Num((CHOOSE p \in Numerals : p[2] = s)[1])
    ELSE IF s \in {"", " "} THEN Num(0)
    ELSE IF s \in {"Infinity", "1e999"} THEN Infinity
    ELSE IF s = "-Infinity" THEN NegInfinity
    ELSE NaN

\* Number(val)
ToNumber(val) ==
    CASE val.t = "string" -> NumberOfString(val.s)
      [] val.t = "boolean" -> Num(val.n)
      [] val.t = "null" -> Num(0)
      [] val.t = "undefined" -> NaN
      [] OTHER -> val

\* String(val)
ToStringJs(val) ==
    CASE val.t = "string" -> val
      [] val.t = "number" -> Str((CHOOSE p \in Numerals : p[1] = val.n)[2])
      [] val.t = "boolean" -> Str(IF val.n = 1 THEN "true" ELSE "false")
      [] OTHER -> Str(val.t)

\* !val
Falsy(val) ==
    \/ val.t \in {"undefined", "null", "NaN"}
    \/ val = Num(0)
    \/ val = Str("")
    \/ val = Bool(FALSE)

\* val || other
OrElse(val, other) == IF Falsy(val) THEN other ELSE val

\* val ?? other
Coalesce(val, other) == IF val.t \in {"undefined", "null"} THEN other ELSE val

\* row[excelCol]: undefined for a column the row does not have.
Cell(cells, excelCol) ==
    IF excelCol \in DOMAIN cells THEN cells[excelCol] ELSE Undefined

\* for (const [excelCol, propName] of Object.entries(map))
\*     result[propName] = row[excelCol];
Mapped(cells, map) ==
    [propName \in {map[i][2] : i \in DOMAIN map} |->
        LET i == CHOOSE j \in DOMAIN map : map[j][2] = propName
        IN  Cell(cells, map[i][1])]

\* obj[key]: undefined for a key the object does not have.
Prop(obj, key) == IF key \in DOMAIN obj THEN obj[key] ELSE Undefined

\* The elements of an array.
Elements(array) == {array[i] : i \in DOMAIN array}

\* ---- the TypeScript parser

\* COLUMN_MAP of types/stock.ts, as Object.entries lists it.
COLUMN_MAP ==
    <<<<"Ticker", "ticker">>,
      <<"Company", "company">>,
      <<"Sector", "sector">>,
      <<"Price", "price">>,
      <<"Intrinsic Value", "intrinsicValue">>,
      <<"Upside %", "upsidePercent">>,
      <<"Lower Band", "lowerBand">>,
      <<"Upper Band", "upperBand">>,
      <<"Band Position", "bandPosition">>,
      <<"RSI", "rsi">>,
      <<"Signal", "signal">>,
      <<"Conviction", "conviction">>,
      <<"Rationale", "rationale">>,
      <<"P/E", "pe">>,
      <<"P/B", "pb">>,
      <<"EPS", "eps">>,
      <<"ROA", "roa">>,
      <<"ROE", "roe">>,
      <<"EBITDA%", "ebitdaPercent">>,
      <<"Net Margin%", "netMarginPercent">>,
      <<"D/E", "de">>,
      <<"IV (Exit Mult)", "ivExitMult">>,
      <<"IV (Perp Growth)", "ivPerpGrowth">>,
      <<"Exit Multiple", "exitMultiple">>,
      <<"Implied g", "impliedG">>,
      <<"Return 1M", "return1M">>,
      <<"Return 6M", "return6M">>,
      <<"Return 1Y", "return1Y">>,
      <<"Return 3Y", "return3Y">>,
      <<"Std Dev 52W", "stdDev52W">>,
      <<"Sharpe 52W", "sharpe52W">>,
      <<"Buy Price", "buyPrice">>>>

\* NUMERIC_STOCK_FIELDS of types/stock.ts, an array.
NUMERIC_STOCK_FIELDS ==
    <<"price", "intrinsicValue", "upsidePercent", "lowerBand",
     "upperBand", "rsi", "conviction", "pe", "pb", "eps", "roa",
     "roe", "ebitdaPercent", "netMarginPercent", "de", "ivExitMult",
     "ivPerpGrowth", "exitMultiple", "impliedG", "return1M",
     "return6M", "return1Y", "return3Y", "stdDev52W", "sharpe52W",
     "buyPrice">>

SECTOR_SUMMARY_MAP ==
    <<<<"Sector", "sector">>,
      <<"# Stocks", "stockCount">>,
      <<"Avg Upside %", "avgUpsidePercent">>,
      <<"# Undervalued", "undervaluedCount">>,
      <<"# Overvalued", "overvaluedCount">>,
      <<"Avg RSI", "avgRSI">>>>

DATA_QUALITY_MAP ==
    <<<<"Ticker", "ticker">>,
      <<"Confidence", "confidence">>,
      <<"Missing Fields", "missingFields">>,
      <<"Last Updated", "lastUpdated">>,
      <<"Notes", "notes">>>>

ASSUMPTIONS_MAP ==
    <<<<"Parameter", "parameter">>,
      <<"Value", "value">>,
      <<"Description", "description">>>>

\* toNumberOrNull with its last test left out.
toNumberOrNullUnchecked(val) ==
    IF val = Undefined \/ val = Null \/ val = Str("") \/ val = Str("N/A")
       \/ val = Str("n/a")
    THEN Null
    ELSE IF TypeofNumber(val) THEN val ELSE ToNumber(val)

\* toNumberOrNull: null for undefined, null, '', 'N/A' and 'n/a', and for
\* what is NaN or not finite as a number.
toNumberOrNull(val) ==
    IF val = Undefined \/ val = Null \/ val = Str("") \/ val = Str("N/A")
       \/ val = Str("n/a")
    THEN Null
    ELSE LET n == IF TypeofNumber(val) THEN val ELSE ToNumber(val)
         IN  IF n = NaN \/ n.t # "number" THEN Null ELSE n

toStringOrNull(val) ==
    IF val = Undefined \/ val = Null \/ val = Str("") THEN Null
    ELSE ToStringJs(val)

validSignals == {"BUY", "BUY (Low Confidence)", "SELL", "SELL (Low Confidence)", "HOLD"}

parseStockRow(cells) ==
    LET copied == Mapped(cells, COLUMN_MAP)
        names == DOMAIN copied \cup Elements(NUMERIC_STOCK_FIELDS)
                   \cup {"ticker", "company", "sector", "rationale",
                         "bandPosition", "signal"}
        stock == [name \in names |->
                     IF name \in Elements(NUMERIC_STOCK_FIELDS)
                     THEN toNumberOrNull(Prop(copied, name))
                     ELSE Prop(copied, name)]
        bp == stock["bandPosition"]
        sig == stock["signal"]
    IN  [stock EXCEPT
            !["ticker"] = ToStringJs(OrElse(@, Str(""))),
            !["company"] = ToStringJs(OrElse(@, Str(""))),
            !["sector"] = ToStringJs(OrElse(@, Str(""))),
            !["rationale"] = toStringOrNull(@),
            !["bandPosition"] =
                IF bp = Str("Upper Half") \/ bp = Str("Lower Half") THEN bp ELSE Null,
            !["signal"] =
                IF sig.t = "string" /\ sig.s \in validSignals THEN sig ELSE Null]

parseSectorRow(cells) ==
    LET result == Mapped(cells, SECTOR_SUMMARY_MAP)
    IN  [sector |-> ToStringJs(OrElse(Prop(result, "sector"), Str(""))),
         stockCount |-> Coalesce(toNumberOrNull(Prop(result, "stockCount")), Num(0)),
         avgUpsidePercent |->
             Coalesce(toNumberOrNull(Prop(result, "avgUpsidePercent")), Num(0)),
         undervaluedCount |->
             Coalesce(toNumberOrNull(Prop(result, "undervaluedCount")), Num(0)),
         overvaluedCount |->
             Coalesce(toNumberOrNull(Prop(result, "overvaluedCount")), Num(0)),
         avgRSI |-> Coalesce(toNumberOrNull(Prop(result, "avgRSI")), Num(0))]

validConf == {"High", "Medium", "Low"}

parseQualityRow(cells) ==
    LET result == Mapped(cells, DATA_QUALITY_MAP)
        conf == Prop(result, "confidence")
    IN  [ticker |-> ToStringJs(OrElse(Prop(result, "ticker"), Str(""))),
         confidence |->
             IF conf.t = "string" /\ conf.s \in validConf THEN conf ELSE Str("Low"),
         missingFields |-> toStringOrNull(Prop(result, "missingFields")),
         lastUpdated |-> toStringOrNull(Prop(result, "lastUpdated")),
         notes |-> toStringOrNull(Prop(result, "notes"))]

parseAssumptionRow(cells) ==
    LET result == Mapped(cells, ASSUMPTIONS_MAP)
    IN  [parameter |-> ToStringJs(OrElse(Prop(result, "parameter"), Str(""))),
         value |-> ToStringJs(Coalesce(Prop(result, "value"), Str(""))),
         description |-> ToStringJs(OrElse(Prop(result, "description"), Str("")))]

\* ---- generate-data.mjs, the build script

\* COLUMN_MAP of generate-data.mjs.
Gen_COLUMN_MAP ==
    <<<<"Ticker", "ticker">>,
      <<"Company", "company">>,
      <<"Sector", "sector">>,
      <<"Price", "price">>,
      <<"Intrinsic Value", "intrinsicValue">>,
      <<"Upside %", "upsidePercent">>,
      <<"Lower Band", "lowerBand">>,
      <<"Upper Band", "upperBand">>,
      <<"Band Position", "bandPosition">>,
      <<"RSI", "rsi">>,
      <<"Signal", "signal">>,
      <<"Conviction", "conviction">>,
      <<"Rationale", "rationale">>,
      <<"P/E", "pe">>,
      <<"P/B", "pb">>,
      <<"EPS", "eps">>,
      <<"ROA", "roa">>,
      <<"ROE", "roe">>,
      <<"EBITDA%", "ebitdaPercent">>,
      <<"Net Margin%", "netMarginPercent">>,
      <<"D/E", "de">>,
      <<"IV (Exit Mult)", "ivExitMult">>,
      <<"IV (Perp Growth)", "ivPerpGrowth">>,
      <<"Exit Multiple", "exitMultiple">>,
      <<"Implied g", "impliedG">>,
      <<"Return 1M", "return1M">>,
      <<"Return 6M", "return6M">>,
      <<"Return 1Y", "return1Y">>,
      <<"Return 3Y", "return3Y">>,
      <<"Std Dev 52W", "stdDev52W">>,
      <<"Sharpe 52W", "sharpe52W">>,
      <<"Buy Price", "buyPrice">>>>

\* NUMERIC_STOCK_FIELDS of generate-data.mjs, a Set.
Gen_NUMERIC_STOCK_FIELDS ==
    {"price", "intrinsicValue", "upsidePercent", "lowerBand",
     "upperBand", "rsi", "conviction", "pe", "pb", "eps", "roa",
     "roe", "ebitdaPercent", "netMarginPercent", "de", "ivExitMult",
     "ivPerpGrowth", "exitMultiple", "impliedG", "return1M",
     "return6M", "return1Y", "return3Y", "stdDev52W", "sharpe52W",
     "buyPrice"}

Gen_SECTOR_SUMMARY_MAP ==
    <<<<"Sector", "sector">>,
      <<"# Stocks", "stockCount">>,
      <<"Avg Upside %", "avgUpsidePercent">>,
      <<"# Undervalued", "undervaluedCount">>,
      <<"# Overvalued", "overvaluedCount">>,
      <<"Avg RSI", "avgRSI">>>>

Gen_DATA_QUALITY_MAP ==
    <<<<"Ticker", "ticker">>,
      <<"Confidence", "confidence">>,
      <<"Missing Fields", "missingFields">>,
      <<"Last Updated", "lastUpdated">>,
      <<"Notes", "notes">>>>

Gen_ASSUMPTIONS_MAP ==
    <<<<"Parameter", "parameter">>,
      <<"Value", "value">>,
      <<"Description", "description">>>>

Gen_toNumberOrNull(val) ==
    IF val = Undefined \/ val = Null \/ val = Str("") \/ val = Str("N/A")
       \/ val = Str("n/a")
    THEN Null
    ELSE LET n == IF TypeofNumber(val) THEN val ELSE ToNumber(val)
         IN  IF n = NaN \/ n.t # "number" THEN Null ELSE n

\* toStringOrNull without the test for the empty string.
Gen_toStringOrNullKeepingEmpty(val) ==
    IF val = Undefined \/ val = Null THEN Null ELSE ToStringJs(val)

Gen_toStringOrNull(val) ==
    IF val = Undefined \/ val = Null \/ val = Str("") THEN Null
    ELSE ToStringJs(val)

Gen_validSignals == {"BUY", "BUY (Low Confidence)", "SELL", "SELL (Low Confidence)", "HOLD"}

Gen_parseStockRow(cells) ==
    LET copied == Mapped(cells, Gen_COLUMN_MAP)
        names == DOMAIN copied \cup Gen_NUMERIC_STOCK_FIELDS
                   \cup {"ticker", "company", "sector", "rationale",
                         "bandPosition", "signal"}
        stock == [name \in names |->
                     IF name \in Gen_NUMERIC_STOCK_FIELDS
                     THEN Gen_toNumberOrNull(Prop(copied, name))
                     ELSE Prop(copied, name)]
        bp == stock["bandPosition"]
        sig == stock["signal"]
    IN  [stock EXCEPT
            !["ticker"] = ToStringJs(OrElse(@, Str(""))),
            !["company"] = ToStringJs(OrElse(@, Str(""))),
            !["sector"] = ToStringJs(OrElse(@, Str(""))),
            !["rationale"] = Gen_toStringOrNull(@),
            !["bandPosition"] =
                IF bp = Str("Upper Half") \/ bp = Str("Lower Half") THEN bp ELSE Null,
            !["signal"] =
                IF sig.t = "string" /\ sig.s \in Gen_validSignals THEN sig ELSE Null]

Gen_parseSectorRow(cells) ==
    LET r == Mapped(cells, Gen_SECTOR_SUMMARY_MAP)
    IN  [sector |-> ToStringJs(OrElse(Prop(r, "sector"), Str(""))),
         stockCount |-> Coalesce(Gen_toNumberOrNull(Prop(r, "stockCount")), Num(0)),
         avgUpsidePercent |->
             Coalesce(Gen_toNumberOrNull(Prop(r, "avgUpsidePercent")), Num(0)),
         undervaluedCount |->
             Coalesce(Gen_toNumberOrNull(Prop(r, "undervaluedCount")), Num(0)),
         overvaluedCount |->
             Coalesce(Gen_toNumberOrNull(Prop(r, "overvaluedCount")), Num(0)),
         avgRSI |-> Coalesce(Gen_toNumberOrNull(Prop(r, "avgRSI")), Num(0))]

Gen_validConf == {"High", "Medium", "Low"}

Gen_parseQualityRow(cells) ==
    LET r == Mapped(cells, Gen_DATA_QUALITY_MAP)
        conf == Prop(r, "confidence")
    IN  [ticker |-> ToStringJs(OrElse(Prop(r, "ticker"), Str(""))),
         confidence |->
             IF conf.t = "string" /\ conf.s \in Gen_validConf THEN conf ELSE Str("Low"),
         missingFields |-> Gen_toStringOrNull(Prop(r, "missingFields")),
         lastUpdated |-> Gen_toStringOrNull(Prop(r, "lastUpdated")),
         notes |-> Gen_toStringOrNull(Prop(r, "notes"))]

Gen_parseAssumptionRow(cells) ==
    LET r == Mapped(cells, Gen_ASSUMPTIONS_MAP)
    IN  [parameter |-> ToStringJs(OrElse(Prop(r, "parameter"), Str(""))),
         value |-> ToStringJs(Coalesce(Prop(r, "value"), Str(""))),
         description |-> ToStringJs(OrElse(Prop(r, "description"), Str("")))]

\* typeof val === 'number' && Number.isNaN(val), counted over Object.values.
NanCount(stock) == Cardinality({name \in DOMAIN stock : stock[name] = NaN})

\* ---- the stock views

\* getMarginOfSafety: null, or (buyPrice - price) / price as a fraction.
getMarginOfSafety(stock) ==
    IF stock["buyPrice"] = Null \/ stock["price"] = Null \/ stock["price"] = Num(0)
    THEN Absent
    ELSE Some([num |-> stock["buyPrice"].n - stock["price"].n,
               den |-> stock["price"].n])

\* mos < 0, mos >= 0
Negative(mos) == mos.num * mos.den < 0

\* The Margin of Safety card of the stock page: emerald for a negative margin.
MarginCardColor(mos) ==
    IF mos # Absent /\ Negative(Val(mos)) THEN "emerald" ELSE "red"

\* The margin-of-safety cell of StockTable: emerald for a margin of 0 or more.
MarginCellColor(mos) ==
    IF mos # Absent
    THEN IF ~Negative(Val(mos)) THEN "emerald" ELSE "red"
    ELSE "slate"

\* ---- rows

\* What a cell of a row can hold; Undefined stands for a blank cell, which
\* sheet_to_json leaves out of the row.
CellValues ==
    {Undefined, Num(0), Num(5), Num(42), Num(-3), Num(75), Num(100), NaN,
     Infinity, Bool(TRUE), Str(""), Str(" "), Str("N/A"), Str("n/a"),
     Str("42"), Str("abc"), Str("1e999"), Str("BUY"), Str("Upper Half"),
     Str("High")}

\* The row of sheet_to_json: the headers of the sheet and one column more,
\* the blank cells left out.
RowOf(columns, pick(_)) ==
    [excelCol \in {c \in columns \cup {"Unmapped"} : pick(c) # Undefined} |->
        pick(excelCol)]

Headers(map) == {map[i][1] : i \in DOMAIN map}

StockRows ==
    {[sheet |-> "Dashboard",
      cells |-> RowOf(Headers(COLUMN_MAP),
                      LAMBDA c : IF c = "Price" THEN a
                                 ELSE IF c = "Buy Price" THEN b ELSE other)] :
        a \in CellValues, b \in CellValues, other \in CellValues}

OtherRows ==
    {[sheet |-> sh.name,
      cells |-> RowOf(Headers(sh.map),
                      LAMBDA c : IF c = sh.map[1][1] THEN a ELSE other)] :
        sh \in {[name |-> "Sector Summary", map |-> SECTOR_SUMMARY_MAP],
                [name |-> "Data Quality", map |-> DATA_QUALITY_MAP],
                [name |-> "Assumptions", map |-> ASSUMPTIONS_MAP]},
        a \in CellValues, other \in CellValues}

RowInputs == StockRows \cup OtherRows

InitData ==
    /\ CallAtRest
    /\ DashboardAtRest
    /\ SearchAtRest
    /\ pair = [kind |-> "none"]
    /\ resultBase = Absent
    /\ resultCash = Absent
    /\ row \in RowInputs
    /\ parsedTs = {}
    /\ parsedMjs = {}
    /\ build = [status |-> "not run"]
    /\ metrics = {}

\* parseWorkbook of the TypeScript parser, for the one row.
ParseWorkbook ==
    /\ parsedTs = {}
    /\ parsedTs' =
         {CASE row.sheet = "Dashboard" -> parseStockRow(row.cells)
            [] row.sheet = "Sector Summary" -> parseSectorRow(row.cells)
            [] row.sheet = "Data Quality" -> parseQualityRow(row.cells)
            [] row.sheet = "Assumptions" -> parseAssumptionRow(row.cells)}
    /\ UNCHANGED <<callVars, pairVars, dashVars, searchVars, row, parsedMjs,
                   build, metrics>>

\* main() of generate-data.mjs, for the one row: parse, count the NaN of the
\* Dashboard sheet, exit with 1 if there are any, else write the JSON files.
GenerateData ==
    /\ build.status = "not run"
    /\ LET parsed ==
             CASE row.sheet = "Dashboard" -> Gen_parseStockRow(row.cells)
               [] row.sheet = "Sector Summary" -> Gen_parseSectorRow(row.cells)
               [] row.sheet = "Data Quality" -> Gen_parseQualityRow(row.cells)
               [] row.sheet = "Assumptions" -> Gen_parseAssumptionRow(row.cells)
           nanCount == IF row.sheet = "Dashboard" THEN NanCount(parsed) ELSE 0
       IN  /\ parsedMjs' = {parsed}
           /\ build' = [status |-> IF nanCount > 0 THEN "exit 1" ELSE "written",
                        nanCount |-> nanCount]
    /\ UNCHANGED <<callVars, pairVars, dashVars, searchVars, row, parsedTs,
                   metrics>>

\* The stock page and StockTable show a stock of dashboard.json.
ShowStock ==
    /\ build.status = "written"
    /\ row.sheet = "Dashboard"
    /\ metrics = {}
    /\ LET stock == Val(parsedMjs)
           mos == getMarginOfSafety(stock)
       IN  metrics' = {[price |-> stock["price"], buyPrice |-> stock["buyPrice"],
                        mos |-> mos, card |-> MarginCardColor(mos),
                        cell |-> MarginCellColor(mos)]}
    /\ UNCHANGED <<callVars, pairVars, dashVars, searchVars, row, parsedTs,
                   parsedMjs, build>>

NextData == ParseWorkbook \/ GenerateData \/ ShowStock

DataSpec == InitData /\ [][NextData]_vars

\* ------------------------------------------------------------ search bar

\* setTimeout(() => onChange(v), 200)
DEBOUNCE_MS == 200

\* The time that passes between two events: half the debounce delay.
TickMs == DEBOUNCE_MS \div 2

\* The time the clock runs to.
MaxTime == 500

\* Keystrokes in one run.
MaxKeys == 3

\* e.target.value: what the input holds after a keystroke.
TypedValues == {"", "a", "ab"}

\* The pending timeouts with none of them cleared.
PendingKept(pending, ref) == pending

\* if (timerRef.current) clearTimeout(timerRef.current)
PendingAfterClearTimeout(pending, ref) == {t \in pending : t.id # ref}

InitSearch ==
    /\ CallAtRest
    /\ DashboardAtRest
    /\ DataAtRest
    /\ pair = [kind |-> "none"]
    /\ resultBase = Absent
    /\ resultCash = Absent
    /\ now = 0
    /\ local = ""
    /\ search = ""
    /\ timers = {}
    /\ timerRef = 0
    /\ keys = <<>>
    /\ calls = <<>>
    /\ cleared = FALSE

\* handleChange: setLocal(v), clear the timeout of timerRef, set a new one.
handleChange ==
    \E v \in TypedValues :
        /\ Len(keys) < MaxKeys
        /\ v # local
        /\ local' = v
        /\ timers' = PendingAfterClearTimeout(timers, timerRef)
                       \cup {[id |-> Len(keys) + 1, due |-> now + DEBOUNCE_MS,
                              v |-> v]}
        /\ timerRef' = Len(keys) + 1
        /\ keys' = Append(keys, [at |-> now, v |-> v])
        /\ cleared' = FALSE
        /\ UNCHANGED <<callVars, pairVars, dashVars, dataVars, now, search, calls>>

\* handleClear, of the button that shows while local is not empty:
\* setLocal(""), onChange("").
handleClear ==
    /\ local # ""
    /\ local' = ""
    /\ search' = ""
    /\ calls' = Append(calls, [at |-> now, v |-> "", by |-> "clear", key |-> 0])
    /\ cleared' = TRUE
    /\ UNCHANGED <<callVars, pairVars, dashVars, dataVars, now, timers, timerRef,
                   keys>>

\* A timeout that is due runs: onChange(v) sets the parent's search, and when
\* that changes the value prop the effect sets local to it.
TimerFires ==
    \E t \in timers :
        /\ t.due <= now
        /\ timers' = timers \ {t}
        /\ search' = t.v
        /\ local' = IF t.v # search THEN t.v ELSE local
        /\ calls' = Append(calls, [at |-> now, v |-> t.v, by |-> "timer",
                                   key |-> t.id])
        /\ UNCHANGED <<callVars, pairVars, dashVars, dataVars, now, timerRef,
                       keys, cleared>>

\* Time passes, to the next timeout that is due at the latest.
Tick ==
    /\ \A t \in timers : t.due > now
    /\ now < MaxTime
    /\ LET next == now + TickMs
       IN  now' = IF \E t \in timers : t.due < next
                  THEN CHOOSE d \in {t.due : t \in timers} :
                           \A t \in timers : d <= t.due
                  ELSE next
    /\ UNCHANGED <<callVars, pairVars, dashVars, dataVars, local, search, timers,
                   timerRef, keys, calls, cleared>>

NextSearch == handleChange \/ handleClear \/ TimerFires \/ Tick

SearchSpec == InitSearch /\ [][NextSearch]_vars

\* ------------------------------------------------------------ properties

\* The call returned a ValuationResult with an intrinsic value.
Returned == pc = "done" /\ status = "OK"

WaccResolved == status = "OK" /\ pc \notin {"start", "validated", "quality_checked"}

MultipleResolved == WaccResolved /\ pc # "wacc_resolved"

Blended == MultipleResolved /\ pc \notin {"multiple_resolved", "valued", "assessed"}

BlendedTags == {"Blended (Exit+Perp)", "Blended (Exit+Perp+Analyst)"}

\* C1: the intrinsic value a call returns is never below IV_FLOOR (0), after
\* blending, the analyst-divergence cap and the upside cap.
C1_IntrinsicValueNonNegative == Returned => Val(iv) >= IV_FLOOR

\* C1 witness: a negative blended value was floored and the call returned 0.
C1_Witness == Returned /\ "floored IV" \in degraded /\ Val(iv) = 0

\* C2: the reported WACC lies in [WACC_FLOOR, WACC_CAP], also for an industry
\* with an entry in the WACC-floor table.
C2_WaccWithinGlobalBounds ==
    WaccResolved => WACC_FLOOR <= wacc /\ wacc <= WACC_CAP

\* C2 witness: an industry floor above the company's own WACC and above the
\* global cap was applied, and the global cap holds.
C2_Witness ==
    /\ pc = "wacc_resolved"
    /\ IndustryWaccFloor(cfg, industry) # Absent
    /\ Val(IndustryWaccFloor(cfg, industry)) > WACC_CAP
    /\ CompanyWacc(args.beta, args.interest, totalDebt, args.mcap) < WACC_CAP
    /\ wacc = WACC_CAP

\* C3 as claimed: with an entry in the WACC-floor table the resolved WACC is
\* at least that industry's floor, under any supplied configuration.
C3_WaccAtLeastIndustryFloor ==
    WaccResolved /\ IndustryWaccFloor(cfg, industry) # Absent
        => wacc >= Val(IndustryWaccFloor(cfg, industry))

\* C3 amended: with an entry in the WACC-floor table the resolved WACC is at
\* least the smaller of that industry's floor and WACC_CAP.
C3_WaccAtLeastCappedIndustryFloor ==
    WaccResolved /\ IndustryWaccFloor(cfg, industry) # Absent
        => wacc >= Min(Val(IndustryWaccFloor(cfg, industry)), WACC_CAP)

\* C3 witness: the shipped Airlines floor lifted a company WACC below it.
C3_Witness ==
    /\ pc = "wacc_resolved"
    /\ cfg = "shipped"
    /\ industry = "Airlines"
    /\ CompanyWacc(args.beta, args.interest, totalDebt, args.mcap) < 1400
    /\ wacc = 1400

\* C4: the resolved exit multiple lies in [floor, EXIT_MULTIPLE_CAP], floor
\* being the industry override when the industry has one, else the global
\* floor, whichever tier of the chain produced it.
C4_ExitMultipleWithinBounds ==
    MultipleResolved =>
        /\ exitMultiple >= (IF industry = "Airlines" THEN 600
                            ELSE EXIT_MULTIPLE_FLOOR)
        /\ exitMultiple <= EXIT_MULTIPLE_CAP
        /\ exitSource \in {"Sector Peer Median", "Blended (Ticker + Industry)",
                           "Blended (Ticker + Sector)", "Ticker EV/EBITDA",
                           "Industry Default", "Sector Default", "Global Default"}

\* C4 witness: a ticker-only multiple below the global floor was clamped up to it.
C4_Witness ==
    /\ pc = "multiple_resolved"
    /\ exitSource = "Ticker EV/EBITDA"
    /\ Val(args.tickerEv) < EXIT_MULTIPLE_FLOOR
    /\ exitMultiple = EXIT_MULTIPLE_FLOOR

C8_EarningsQualityForcesLow ==
    /\ pc = "quality_checked" =>
           forceLow = (\/ args.eps # Absent /\ Val(args.eps) < 0
                       \/ /\ args.margin # Absent
                          /\ Val(args.margin) > 0
                          /\ Val(args.margin) < MIN_EBITDA_MARGIN_FOR_DCF)
    /\ pc = "filtered" =>
           confidence = (IF forceLow THEN "Low" ELSE args.before)
    /\ Returned /\ forceLow => confidence = "Low"

\* C8 witness: negative EPS alone took a High tier to Low.
C8_Witness ==
    /\ Returned
    /\ eqNote = {"Negative trailing EPS"}
    /\ confAtBlend = "High"
    /\ degraded = {"forced Low: earnings quality"}
    /\ confidence = "Low"

\* The messages that trace a degradation in the notes.
TraceOf(d) ==
    CASE d \in {"capped IV: price", "forced Low: price cap"}
           -> {"IV capped at price multiple"}
      [] d \in {"capped IV: analyst", "forced Low: analyst divergence"}
           -> {"IV diverges from analyst target"}
      [] d = "forced Low: earnings quality"
           -> {"Negative trailing EPS", "Thin EBITDA margin"}
      [] OTHER -> {"Exit multiple clamped", "IV floored at zero"}

\* C9 as claimed: every degradation of the call (clamped multiple, capped or
\* floored IV, confidence forced to "Low") has a message in the returned notes.
C9_EveryDegradationIsNoted ==
    Returned => \A d \in degraded : TraceOf(d) \cap notes # {}

\* C10: a provided, positive sector-peer median decides the multiple: the
\* median clamped to [floor, ceiling], tagged "Sector Peer Median", whatever
\* the ticker's EV/EBITDA and the defaults; no other input yields that tag.
C10_PeerMedianTakesPrecedence ==
    pc = "multiple_resolved" =>
        LET floor == IF industry = "Airlines" THEN 600 ELSE EXIT_MULTIPLE_FLOOR
            usable == args.peer # Absent /\ Val(args.peer) > 0
        IN  /\ usable =>
                /\ exitSource = "Sector Peer Median"
                /\ exitMultiple = Max(floor, Min(Val(args.peer), EXIT_MULTIPLE_CAP))
            /\ ~usable => exitSource # "Sector Peer Median"

\* C10 witness: the peer median won although a valid ticker EV/EBITDA, an
\* industry default and a sector default were all at hand.
C10_Witness ==
    /\ pc = "multiple_resolved"
    /\ args.peer = {1500}
    /\ TickerValid(args.tickerEv)
    /\ IndustryExitMultiple(industry) # Absent
    /\ SectorExitMultiple(args.sector) # Absent
    /\ exitSource = "Sector Peer Median"
    /\ exitMultiple = 1500

\* C11: with no usable peer median and a ticker EV/EBITDA strictly between 1.0
\* and 100.0 the multiple is clamp((ticker + reference) / 2), the reference
\* being the industry default (tag "Blended (Ticker + Industry)") or else the
\* sector default (tag "Blended (Ticker + Sector)"), and clamp(ticker) tagged
\* "Ticker EV/EBITDA" when there is neither; ticker 22 with sector default 20
\* and no industry default gives 21.0; a ticker EV/EBITDA outside (1.0, 100.0)
\* never enters a blend.
C11_TickerBlendedWithBestReference ==
    pc = "multiple_resolved" /\ ~(args.peer # Absent /\ Val(args.peer) > 0) =>
        LET t == args.tickerEv
            inRange == t # Absent /\ Val(t) > 100 /\ Val(t) < 10000
            floor == IF industry = "Airlines" THEN 600 ELSE EXIT_MULTIPLE_FLOOR
            clamped(v) == Max(floor, Min(v, EXIT_MULTIPLE_CAP))
            indDef == IndustryExitMultiple(industry)
            secDef == SectorExitMultiple(args.sector)
        IN  /\ inRange /\ indDef # Absent =>
                /\ exitMultiple = clamped((Val(t) + Val(indDef)) \div 2)
                /\ exitSource = "Blended (Ticker + Industry)"
            /\ inRange /\ indDef = Absent /\ secDef # Absent =>
                /\ exitMultiple = clamped((Val(t) + Val(secDef)) \div 2)
                /\ exitSource = "Blended (Ticker + Sector)"
            /\ inRange /\ indDef = Absent /\ secDef = Absent =>
                /\ exitMultiple = clamped(Val(t))
                /\ exitSource = "Ticker EV/EBITDA"
            /\ inRange /\ t = {2200} /\ indDef = Absent /\ secDef = {2000} =>
                exitMultiple = 2100
            /\ ~inRange => exitSource \in {"Industry Default", "Sector Default",
                                           "Global Default"}

\* C11 witness: ticker 22 and the Technology default 20, no industry default,
\* resolved to 21.0 "Blended (Ticker + Sector)".
C11_Witness ==
    /\ pc = "multiple_resolved"
    /\ args.peer = Absent
    /\ args.tickerEv = {2200}
    /\ args.sector = "Technology"
    /\ industry = ""
    /\ exitMultiple = 2100
    /\ exitSource = "Blended (Ticker + Sector)"

\* C12: an industry exit-multiple floor replaces the global floor: with no
\* usable peer median and no usable ticker EV/EBITDA, an industry default below
\* the global floor but at or above the industry floor is returned unchanged,
\* tagged "Industry Default" (Airlines: default 6.0, floor 6.0 gives 6.0).
C12_IndustryFloorReplacesGlobalFloor ==
    pc = "multiple_resolved" =>
        LET t == args.tickerEv
            noPeer == ~(args.peer # Absent /\ Val(args.peer) > 0)
            noTicker == ~(t # Absent /\ Val(t) > 100 /\ Val(t) < 10000)
            indDef == IndustryExitMultiple(industry)
            indFloor == IndustryExitMultipleFloor(industry)
        IN  /\ (/\ noPeer /\ noTicker /\ indDef # Absent /\ indFloor # Absent
                /\ Val(indFloor) <= Val(indDef)
                /\ Val(indDef) < EXIT_MULTIPLE_FLOOR)
               => exitMultiple = Val(indDef) /\ exitSource = "Industry Default"
            /\ noPeer /\ noTicker /\ industry = "Airlines"
               => exitMultiple = 600 /\ exitSource = "Industry Default"

\* C12 witness: an airline with no peer median and an out-of-range ticker
\* EV/EBITDA got its industry default 6.0, below the global floor.
C12_Witness ==
    /\ pc = "multiple_resolved"
    /\ industry = "Airlines"
    /\ args.peer = {0}
    /\ args.tickerEv = {15000}
    /\ exitSource = "Industry Default"
    /\ exitMultiple = 600
    /\ exitMultiple < EXIT_MULTIPLE_FLOOR

\* The two terminal-value paths of the call have been valued.
Valued == MultipleResolved /\ pc # "multiple_resolved"

\* C14: the perpetual-growth value is present in the result if and only if
\* WACC - long-run growth >= MIN_WACC_G_SPREAD; below the threshold it is
\* absent, the quotient by (WACC - g) never formed.
C14_PerpPresentIffSpreadWideEnough ==
    Valued => (ivPerp # Absent
                  <=> wacc - TerminalGrowthRate(cfg) >= MIN_WACC_G_SPREAD)

\* C14 witness: a positive spread under the minimum (8.42% - 6%) left the
\* perpetual-growth value absent.
C14_Witness ==
    /\ pc = "valued"
    /\ wacc - TerminalGrowthRate(cfg) > 0
    /\ wacc - TerminalGrowthRate(cfg) < MIN_WACC_G_SPREAD
    /\ ivPerp = Absent
    /\ ivExit # Absent

\* Both calls of a pair returned.
PairDone == resultBase # Absent /\ resultCash # Absent

\* C13 as claimed: of two records that differ only in total cash, the one with
\* more cash never gets the lower intrinsic value (stated for the pairs whose
\* two calls blend by the same method).
C13_MoreCashNeverLowersValue ==
    PairDone /\ Val(resultCash).method = Val(resultBase).method
        => Val(resultCash).iv >= Val(resultBase).iv

\* C15: a price-to-book ratio outside [0.05, 200] is treated as absent: it is
\* neither clamped into the range nor read as zero, no fair-P/B value is
\* computed from the record, and the call still returns a result, with
\* "Insufficient Data" and no intrinsic value; a ratio inside the range
\* (bounds included) yields the ROE-adjusted fair value.
C15_OutOfRangePriceToBookIsAbsent ==
    pc = "done" /\ args.step = "financial" =>
        LET inRange == /\ args.pb # Absent
                       /\ Val(args.pb) >= 50
                       /\ Val(args.pb) <= 200000
            ke == RISK_FREE_RATE
                  + (Max(BETA_FLOOR, Min(IF args.beta = Absent THEN 100
                                         ELSE Val(args.beta), BETA_CAP))
                     * EQUITY_RISK_PREMIUM) \div 100
            fairPb == Max(50, Min((Val(args.roe) * 100) \div ke, 400))
        IN  /\ ~inRange => /\ iv = Absent
                           /\ ivMethod = ""
                           /\ status = "Insufficient Data"
            /\ inRange => /\ iv = Some((args.bvps * fairPb) \div 100)
                          /\ ivMethod = "Fair P/B"
                          /\ status = "P/B Fallback"

\* C15 witness: a bank reported with P/B 0.001 returned "Insufficient Data"
\* and no intrinsic value.
C15_Witness ==
    /\ pc = "done"
    /\ args.step = "financial"
    /\ args.pb = {1}
    /\ iv = Absent
    /\ status = "Insufficient Data"

C17_SingleMethodUsedUnblended ==
    pc = "blended" =>
        /\ ivMethod \in {"Exit Multiple Only", "Perpetual Growth Only"}
                            \cup BlendedTags
        /\ ivPerp = Absent => ivMethod = "Exit Multiple Only" /\ iv = ivExit
        /\ ivMethod = "Exit Multiple Only" =>
               iv = ivExit /\ weights = [exit |-> 100, perp |-> 0, analyst |-> 0]
        /\ ivMethod = "Perpetual Growth Only" =>
               /\ iv = ivPerp
               /\ Val(ivExit) <= 0
               /\ weights = [exit |-> 0, perp |-> 100, analyst |-> 0]
        /\ ivMethod \in BlendedTags =>
               /\ ivExit # Absent /\ ivPerp # Absent
               /\ weights.exit > 0 /\ weights.perp > 0
        /\ ivMethod = "Blended (Exit+Perp+Analyst)" <=> weights.analyst > 0

\* C17 witness: the perpetual-growth value was absent and an analyst anchor at
\* hand, and the exit-multiple value was returned as it is.
C17_Witness ==
    /\ pc = "blended"
    /\ ivPerp = Absent
    /\ analyst # Absent
    /\ Val(ivExit) > 0
    /\ iv = ivExit
    /\ ivMethod = "Exit Multiple Only"

C19_NoSaveOnInitialMount == "mount" \notin saves

\* C20: weightByUpside gives every stock whose upsidePercent is null, zero or
\* negative the allocation 0 and every stock of positive upside
\* round(upside / sum of the positive upsides x 100, 2 decimals); with no
\* stock of positive upside the portfolio, allocations included, stays as it
\* was.
C20_WeightByUpsideAllocations ==
    lastCall.op = "weightByUpside" =>
        LET prev == lastCall.prev
            positive(ps) == ps.upside # Absent /\ Val(ps.upside) > 0
            total[n \in 0..Len(prev)] ==
                IF n = 0 THEN 0
                ELSE total[n - 1]
                     + (IF positive(prev[n]) THEN Val(prev[n].upside) ELSE 0)
            sum == total[Len(prev)]
        IN  IF \A i \in 1..Len(prev) : ~positive(prev[i])
            THEN portfolio = prev
            ELSE /\ Len(portfolio) = Len(prev)
                 /\ \A i \in 1..Len(prev) :
                     /\ portfolio[i].ticker = prev[i].ticker
                     /\ portfolio[i].upside = prev[i].upside
                     /\ portfolio[i].conviction = prev[i].conviction
                     /\ portfolio[i].alloc =
                            IF positive(prev[i])
                            THEN (2 * Val(prev[i].upside) * 10000 + sum)
                                     \div (2 * sum)
                            ELSE 0

\* C20 witness: a stock of negative upside held at 50% went to 0 and the one
\* stock of positive upside beside it to 100%.
C20_Witness ==
    /\ lastCall.op = "weightByUpside"
    /\ Len(portfolio) = 2
    /\ \E i, j \in 1..2 :
        /\ lastCall.prev[i].ticker = "EEE"
        /\ lastCall.prev[i].alloc = 5000
        /\ portfolio[i].alloc = 0
        /\ portfolio[j].ticker = "BBB"
        /\ portfolio[j].alloc = 10000

\* The row went through both parsers and main() ended.
Parsed == parsedTs # {} /\ parsedMjs # {} /\ build.status # "not run"

\* C21 as claimed: getMarginOfSafety is null exactly when buyPrice is null,
\* price is null or price is 0, else (buyPrice - price) / price; and for a
\* positive price it is negative exactly when the price is below the buy
\* price.
C21_NegativeMarginMeansPriceBelowBuyPrice ==
    \A m \in metrics :
        /\ m.mos = Absent <=>
               (m.buyPrice = Null \/ m.price = Null \/ m.price = Num(0))
        /\ m.mos # Absent =>
               /\ Val(m.mos).num = m.buyPrice.n - m.price.n
               /\ Val(m.mos).den = m.price.n
               /\ m.price.n > 0 =>
                      (Val(m.mos).num * Val(m.mos).den < 0
                           <=> m.price.n < m.buyPrice.n)

\* A finite number or null.
FiniteOrNull(val) == val = Null \/ val.t = "number"

\* C22: in the record parseStockRow makes of any row, every field of
\* NUMERIC_STOCK_FIELDS is a finite number or null, signal is one of the
\* five signals or null, bandPosition is 'Upper Half', 'Lower Half' or null;
\* and the NaN count of generate-data is 0, so that it writes its files.
C22_ParsedStockIsSanitised ==
    row.sheet = "Dashboard" =>
        /\ \A stock \in parsedTs \cup parsedMjs :
            /\ \A i \in DOMAIN NUMERIC_STOCK_FIELDS :
                   FiniteOrNull(stock[NUMERIC_STOCK_FIELDS[i]])
            /\ stock["signal"] \in
                   {Null, Str("BUY"), Str("BUY (Low Confidence)"), Str("SELL"),
                    Str("SELL (Low Confidence)"), Str("HOLD")}
            /\ stock["bandPosition"] \in {Null, Str("Upper Half"), Str("Lower Half")}
        /\ build.status # "not run" =>
               build.nanCount = 0 /\ build.status = "written"

\* C22 witness: a Dashboard row with an infinite price and NaN in its other
\* numeric cells went through both parsers and generate-data wrote its files.
C22_Witness ==
    /\ row.sheet = "Dashboard"
    /\ Parsed
    /\ Cell(row.cells, "Price") = Infinity
    /\ Cell(row.cells, "RSI") = NaN
    /\ Val(parsedTs)["price"] = Null
    /\ Val(parsedMjs)["rsi"] = Null
    /\ build.status = "written"

\* C23: the column maps and the numeric fields of generate-data.mjs are those
\* of types/stock.ts, and for every row of every sheet the build script and
\* the TypeScript parser return the same record.
C23_BuildScriptMirrorsParser ==
    /\ Gen_COLUMN_MAP = COLUMN_MAP
    /\ Gen_SECTOR_SUMMARY_MAP = SECTOR_SUMMARY_MAP
    /\ Gen_DATA_QUALITY_MAP = DATA_QUALITY_MAP
    /\ Gen_ASSUMPTIONS_MAP = ASSUMPTIONS_MAP
    /\ Gen_NUMERIC_STOCK_FIELDS =
           {NUMERIC_STOCK_FIELDS[i] : i \in DOMAIN NUMERIC_STOCK_FIELDS}
    /\ (parsedTs # {} /\ parsedMjs # {}) => parsedMjs = parsedTs

\* C23 witness: a Data Quality row with an empty Notes cell and a number for
\* its ticker went through both parsers.
C23_Witness ==
    /\ row.sheet = "Data Quality"
    /\ Parsed
    /\ Cell(row.cells, "Notes") = Str("")
    /\ Cell(row.cells, "Ticker") = Num(42)
    /\ Val(parsedMjs)["notes"] = Null
    /\ Val(parsedTs)["ticker"] = Str("42")

\* C25 as claimed: after handleClear the parent's search is '' and stays ''
\* until the next keystroke, whatever timeout was pending at the click.
C25_ClearedSearchStaysEmpty == cleared => search = ""

\* The onChange calls that the timeout of keystroke i made.
CallsOfKey(i) == {j \in DOMAIN calls : calls[j].by = "timer" /\ calls[j].key = i}

C24_OneEntryPerTicker ==
    /\ \A i, j \in 1..Len(portfolio) :
           portfolio[i].ticker = portfolio[j].ticker => i = j
    /\ (/\ lastCall.op = "addStock"
        /\ \E i \in 1..Len(lastCall.prev) :
               lastCall.prev[i].ticker = lastCall.arg)
           => portfolio = lastCall.prev

\* C24 witness: addStock("AAA") was called on a portfolio of two stocks that
\* held AAA at 50%, committed and with a note, and the entry is as it was.
C24_Witness ==
    /\ lastCall.op = "addStock"
    /\ lastCall.arg = "AAA"
    /\ Len(lastCall.prev) = 2
    /\ \E i \in 1..2 :
        /\ lastCall.prev[i].ticker = "AAA"
        /\ portfolio[i] = [ticker |-> "AAA", upside |-> Some(10),
                           conviction |-> Some(5), alloc |-> 5000,
                           status |-> "committed", notes |-> "core"]

\* C27: every allocationPercent of the portfolio is in [0, 100] (0..10000 in
\* hundredths of a percent), whatever actions were called; and
\* updateAllocation changes nothing but the allocation of the entry with the
\* ticker it was given.
C27_AllocationsStayInRange ==
    /\ [](\A i \in 1..Len(portfolio) :
              portfolio[i].alloc >= 0 /\ portfolio[i].alloc <= 10000)
    /\ [][(phase = "idle" /\ lastCall'.op = "updateAllocation") =>
              /\ Len(portfolio') = Len(portfolio)
              /\ \A i \in 1..Len(portfolio) :
                     IF portfolio[i].ticker = lastCall'.arg
                     THEN portfolio'[i] =
                              [portfolio[i] EXCEPT !.alloc = portfolio'[i].alloc]
                     ELSE portfolio'[i] = portfolio[i]]_vars

\* C27 witness: updateAllocation("BBB", 150) on a portfolio that holds AAA at
\* 50% left BBB at 100% and AAA at 50%.
C27_Witness ==
    /\ lastCall.op = "updateAllocation"
    /\ lastCall.arg = "BBB"
    /\ phase = "changed"
    /\ Len(portfolio) = 2
    /\ \E i, j \in 1..2 :
        /\ portfolio[i].ticker = "BBB"
        /\ portfolio[i].alloc = 10000
        /\ portfolio[j].ticker = "AAA"
        /\ portfolio[j].alloc = 5000

====
